---- MODULE Spec2Model ----
(***************************************************************************)
(* A model of vermouth's attributed molecular graph (molecule.py): the     *)
(* Molecule container and its operations, the Block residue template, and  *)
(* the attribute pattern-matching primitive attributes_match; and of the   *)
(* resolution transformation do_mapping (processors/do_mapping.py).        *)
(*                                                                         *)
(* Python values are encoded as follows.                                   *)
(*   dict            a function whose DOMAIN is the set of keys            *)
(*   dict.get(k, d)  Get(dict, k, d)                                       *)
(*   OrderedDict of nodes   the sequence of keys (insertion order) plus a  *)
(*                   function from key to attribute dict                   *)
(*   tuple / list    a sequence                                            *)
(*   None, as the value of nrexcl or of an attribute   the string "None"   *)
(*   a returned value that may be None   the set {} (None) or {v}          *)
(*   an undirected edge (u, v)   the set {u, v} (a self-loop is {u})       *)
(***************************************************************************)
EXTENDS Integers, Sequences, FiniteSets, TLC

VARIABLES mol, last, block, match, cov, dm, system, rs

vars == <<mol, last, block, match, cov, dm, system, rs>>

(***************************************************************************)
(* Bounds of the model.                                                    *)
(***************************************************************************)
\* node ids a caller passes to add_node / add_edge / add_interaction: 0..MaxId
MaxId == 1
\* the receiver holds at most MaxNodes particles
MaxNodes == 4
\* a molecule holds at most MaxInter interactions, all types together
MaxInter == 2
\* merge_molecule is not called once it would create a node id above MaxMergedId
MaxMergedId == 4
\* attribute dicts and templates of attributes_match use the first NumKeys keys
NumKeys == 2
\* a block holds at most MaxBlockInter interactions, all types together
MaxBlockInter == 2
\* cover is called on at most MaxToCover names and at most MaxOptions options
\* of at most MaxOptionLen names each
MaxToCover == 2
MaxOptions == 2
MaxOptionLen == 2

(***************************************************************************)
(* Helpers for the encoding.                                               *)
(***************************************************************************)
Range(s) == {s[i] : i \in 1..Len(s)}

SetMax(S) == CHOOSE x \in S : \A y \in S : y <= x

SetMin(S) == CHOOSE x \in S : \A y \in S : x <= y

IndexOf(s, x) == CHOOSE i \in 1..Len(s) : s[i] = x

Get(d, k, default) == IF k \in DOMAIN d THEN d[k] ELSE default

Update(d, e) == [k \in DOMAIN d \cup DOMAIN e |-> IF k \in DOMAIN e THEN e[k] ELSE d[k]]

SelectSeqIdx(s, keep) ==
    LET F[i \in 0..Len(s)] ==
            IF i = 0 THEN <<>>
            ELSE IF i \in keep THEN Append(F[i - 1], s[i]) ELSE F[i - 1]
    IN F[Len(s)]

EmptyDict == [k \in {} |-> 0]

(***************************************************************************)
(* Interaction = namedtuple('Interaction', 'atoms parameters meta')        *)
(***************************************************************************)
Interaction(atoms, parameters, meta) ==
    [atoms |-> atoms, parameters |-> parameters, meta |-> meta]

\* interaction.meta.get('version', 0)
MetaVersion(meta) == Get(meta, "version", 0)

(***************************************************************************)
(* Molecule: an nx.Graph with ordered nodes, plus interactions, nrexcl and *)
(* the force field.  Molecule() after construction:                        *)
(***************************************************************************)
MolTypes == {"bonds", "angles"}

Molecule(force_field) ==
    [nodes |-> <<>>,
     attr |-> EmptyDict,
     edges |-> {},
     interactions |-> [t \in MolTypes |-> <<>>],
     nrexcl |-> "None",
     force_field |-> force_field]

NodeSet(m) == Range(m.nodes)

NumInteractions(m) ==
    Len(m.interactions["bonds"]) + Len(m.interactions["angles"])

\* nx.Graph.add_node(idx, **attrs): a new node goes last, an existing node
\* keeps its place and has its attributes updated.
add_node(m, idx, attrs) ==
    IF idx \in NodeSet(m)
    THEN [m EXCEPT !.attr[idx] = Update(@, attrs)]
    ELSE [m EXCEPT !.nodes = Append(@, idx),
                   !.attr = [k \in NodeSet(m) \cup {idx} |->
                                IF k = idx THEN attrs ELSE m.attr[k]]]

\* nx.Graph.remove_nodes_from(nodes): the nodes and their edges go; the
\* class does not override it, so self.interactions is not touched.
remove_nodes_from(m, rm) ==
    [m EXCEPT !.nodes = SelectSeqIdx(@, {i \in 1..Len(@) : @[i] \notin rm}),
              !.attr = [k \in NodeSet(m) \ rm |-> m.attr[k]],
              !.edges = {e \in @ : e \cap rm = {}}]

Returned(m, ret) == [mol |-> m, raised |-> "none", ret |-> ret]

Raised(m, exc) == [mol |-> m, raised |-> exc, ret |-> {}]

\* Molecule.add_interaction
add_interaction(m, type_, atoms, parameters, meta) ==
    IF \E i \in 1..Len(atoms) : atoms[i] \notin NodeSet(m)
    THEN Raised(m, "ValueError")
    ELSE Returned([m EXCEPT !.interactions[type_] =
                       Append(@, Interaction(atoms, parameters, meta))], {})

\* add_or_replace_interaction matching on the atoms alone
add_or_replace_interaction_any_version(m, type_, atoms, parameters, meta) ==
    LET lst == m.interactions[type_]
        hits == {i \in 1..Len(lst) : lst[i].atoms = atoms}
    IN IF hits # {}
       THEN Returned([m EXCEPT !.interactions[type_][SetMin(hits)] =
                          Interaction(atoms, parameters, meta)], {})
       ELSE add_interaction(m, type_, atoms, parameters, meta)

\* Molecule.add_or_replace_interaction
add_or_replace_interaction(m, type_, atoms, parameters, meta) ==
    LET lst == m.interactions[type_]
        hits == {i \in 1..Len(lst) :
                    /\ lst[i].atoms = atoms
                    /\ MetaVersion(lst[i].meta) = MetaVersion(meta)}
    IN IF hits # {}
       THEN Returned([m EXCEPT !.interactions[type_][SetMin(hits)] =
                          Interaction(atoms, parameters, meta)], {})
       ELSE add_interaction(m, type_, atoms, parameters, meta)

\* Molecule.remove_interaction: the loop breaks on the first interaction
\* with these atoms whose meta.get('version', 0) is truthy (non-zero); the
\* version argument is only used in the error message.
remove_interaction(m, type_, atoms, version) ==
    LET lst == m.interactions[type_]
        hits == {i \in 1..Len(lst) :
                    /\ lst[i].atoms = atoms
                    /\ MetaVersion(lst[i].meta) # 0}
    IN IF hits = {}
       THEN Raised(m, "KeyError")
       ELSE Returned([m EXCEPT !.interactions[type_] =
                          SelectSeqIdx(lst, (1..Len(lst)) \ {SetMin(hits)})], {})

\* Molecule.merge_molecule.  The two checks come first.  Then the offsets
\* are read from the node with the largest id (a KeyError when it carries
\* no 'resid'); the nodes of `molecule` are numbered offset, offset + 1, ...
\* in their insertion order (enumerate(molecule.nodes(), start=offset)), a
\* node without 'resid' raising KeyError after the nodes before it were
\* added; interactions and edges are translated through `correspondence`.
\* The method has no return statement: it returns None.
\* correspondence with the offset taken from the number of nodes
correspondence_len_offset(self, molecule) ==
    [k \in NodeSet(molecule) |-> Len(self.nodes) + IndexOf(molecule.nodes, k) - 1]

correspondence(self, molecule) ==
    LET offset == IF Len(self.nodes) > 0 THEN SetMax(NodeSet(self)) + 1 ELSE 0
    IN [k \in NodeSet(molecule) |-> offset + IndexOf(molecule.nodes, k) - 1]

MergeNodes(self, molecule, upto) ==
    LET nonempty == Len(self.nodes) > 0
        last_node_idx == SetMax(NodeSet(self))
        residue_offset ==
            IF nonempty THEN self.attr[last_node_idx]["resid"] + 1 ELSE 0
        offset_charge_group ==
            IF nonempty
            THEN Get(self.attr[last_node_idx], "charge_group", -1) + 1
            ELSE 0
        corr == correspondence(self, molecule)
        new_atom(node) ==
            LET a == molecule.attr[node]
            IN Update(a, [resid |-> a["resid"] + residue_offset,
                          charge_group |->
                              Get(a, "charge_group", 0) + offset_charge_group])
        F[i \in 0..upto] ==
            IF i = 0 THEN self
            ELSE add_node(F[i - 1], corr[molecule.nodes[i]],
                          new_atom(molecule.nodes[i]))
    IN F[upto]

MergeInteractions(m, molecule, corr) ==
    [m EXCEPT !.interactions =
        [t \in MolTypes |->
            m.interactions[t] \o
            [i \in 1..Len(molecule.interactions[t]) |->
                LET it == molecule.interactions[t][i]
                IN Interaction([j \in 1..Len(it.atoms) |-> corr[it.atoms[j]]],
                               it.parameters, it.meta)]]]

MergeEdges(m, molecule, corr) ==
    [m EXCEPT !.edges = @ \cup {{corr[n] : n \in e} : e \in molecule.edges}]

MergeAll(self, molecule) ==
    LET corr == correspondence(self, molecule)
    IN MergeEdges(MergeInteractions(MergeNodes(self, molecule, Len(molecule.nodes)),
                                    molecule, corr),
                  molecule, corr)

\* merge_molecule checking nrexcl only after the nodes were added
merge_molecule_late_nrexcl_check(self, molecule) ==
    IF self.force_field # molecule.force_field
    THEN Raised(self, "ValueError")
    ELSE IF /\ Len(self.nodes) > 0
            /\ "resid" \notin DOMAIN self.attr[SetMax(NodeSet(self))]
    THEN Raised(self, "KeyError")
    ELSE LET n == Len(molecule.nodes)
             noresid == {i \in 1..n :
                            "resid" \notin DOMAIN molecule.attr[molecule.nodes[i]]}
         IN IF noresid # {}
            THEN Raised(MergeNodes(self, molecule, SetMin(noresid) - 1), "KeyError")
            ELSE IF self.nrexcl # molecule.nrexcl
            THEN Raised(MergeNodes(self, molecule, n), "ValueError")
            ELSE Returned(MergeAll(self, molecule), {})

merge_molecule(self, molecule) ==
    IF self.force_field # molecule.force_field
    THEN Raised(self, "ValueError")
    ELSE IF self.nrexcl # molecule.nrexcl
    THEN Raised(self, "ValueError")
    ELSE IF /\ Len(self.nodes) > 0
            /\ "resid" \notin DOMAIN self.attr[SetMax(NodeSet(self))]
    THEN Raised(self, "KeyError")
    ELSE LET n == Len(molecule.nodes)
             noresid == {i \in 1..n :
                            "resid" \notin DOMAIN molecule.attr[molecule.nodes[i]]}
         IN IF noresid # {}
            THEN Raised(MergeNodes(self, molecule, SetMin(noresid) - 1), "KeyError")
            ELSE Returned(MergeAll(self, molecule), {})

(***************************************************************************)
(* The inputs of the Molecule operations.                                  *)
(***************************************************************************)
Ids == 0..MaxId

\* attributes given to add_node
NodeAttrs == {EmptyDict, [resid |-> 1]}

\* atom tuples given to the interaction methods: the node ids of add_node,
\* and 2, which only a merge creates
AtomTuples == {<<0, 1>>, <<1, 0>>, <<1, 2>>}

Parameters == {"p1", "p2"}

Versions == {0, 1}

Metas == {EmptyDict} \cup {[version |-> v] : v \in Versions}

\* The molecules handed to merge_molecule.  Each satisfies the Molecule
\* contract: its interactions and edges refer to its own nodes.
MkMol(nodes, attr, edges, bonds, angles, nrexcl, force_field) ==
    [nodes |-> nodes, attr |-> attr, edges |-> edges,
     interactions |-> [t \in MolTypes |-> IF t = "bonds" THEN bonds ELSE angles],
     nrexcl |-> nrexcl, force_field |-> force_field]

Others ==
    << \* ids 0, 1: contiguous, starting at 0
       MkMol(<<0, 1>>, [k \in {0, 1} |-> [resid |-> 1]], {{0, 1}},
             <<Interaction(<<0, 1>>, "p1", EmptyDict)>>, <<>>, "None", "ff1"),
       \* ids 2, 5 inserted as 5, 2: not contiguous, not starting at 0
       MkMol(<<5, 2>>, [k \in {2, 5} |-> [resid |-> 0, charge_group |-> k]],
             {{2, 5}}, <<>>,
             <<Interaction(<<2, 5>>, "p2", [version |-> 1])>>, "None", "ff1"),
       \* another nrexcl
       MkMol(<<0>>, [k \in {0} |-> [resid |-> 1]], {},
             <<Interaction(<<0, 0>>, "p1", EmptyDict)>>, <<>>, "1", "ff1"),
       \* another force field
       MkMol(<<0>>, [k \in {0} |-> [resid |-> 1]], {},
             <<>>, <<>>, "None", "ff2"),
       \* the second node carries no resid
       MkMol(<<0, 1>>, [k \in {0, 1} |-> IF k = 0 THEN [resid |-> 1] ELSE EmptyDict],
             {{0, 1}}, <<>>, <<>>, "None", "ff1") >>

(***************************************************************************)
(* The state machine of one Molecule (the receiver).  `last` is the record *)
(* of the call that was just made: its name, its arguments, the molecule   *)
(* before it, what it raised and what it returned.  The caller takes note  *)
(* of it (Return) before it makes the next call.                           *)
(***************************************************************************)
Idle == [op |-> "none"]

Call(op, args, res) ==
    /\ last.op = "none"
    /\ mol' = res.mol
    /\ last' = [op |-> op, args |-> args, pre |-> mol,
                raised |-> res.raised, ret |-> res.ret]
    /\ UNCHANGED <<block, match, cov, dm, system, rs>>

NoBlock == [name |-> "None"]

NoMatch == [op |-> "none"]

NoCover == [op |-> "none"]

NoRun == [pc |-> "none"]

NoSystem == [molecules |-> <<>>, force_field |-> "None"]

NoCall == [pc |-> "none"]

MolInit ==
    /\ mol = Molecule("ff1")
    /\ last = Idle
    /\ block = NoBlock
    /\ match = NoMatch
    /\ cov = NoCover
    /\ dm = NoRun
    /\ system = NoSystem
    /\ rs = NoCall

Return ==
    /\ last.op # "none"
    /\ last' = Idle
    /\ UNCHANGED <<mol, block, match, cov, dm, system, rs>>

AddNode(attrset) ==
    \E idx \in Ids, attrs \in attrset :
        /\ IF idx \in NodeSet(mol) THEN TRUE ELSE Len(mol.nodes) < MaxNodes
        /\ Call("add_node", [idx |-> idx, attrs |-> attrs],
                Returned(add_node(mol, idx, attrs), {}))

RemoveNodesFrom ==
    \E idx \in NodeSet(mol) :
        Call("remove_nodes_from", [nodes |-> {idx}],
             Returned(remove_nodes_from(mol, {idx}), {}))

\* graph_out.nrexcl = blocks_to.nrexcl, done while nrexcl is None
SetNrexcl ==
    \E k \in 1..Len(Others) :
        /\ mol.nrexcl = "None"
        /\ Others[k].nrexcl # "None"
        /\ Call("set_nrexcl", [other |-> k],
                Returned([mol EXCEPT !.nrexcl = Others[k].nrexcl], {}))

AddInteraction ==
    \E type_ \in MolTypes, atoms \in AtomTuples,
       parameters \in Parameters, meta \in Metas :
        /\ NumInteractions(mol) < MaxInter
        /\ Call("add_interaction",
                [type_ |-> type_, atoms |-> atoms,
                 parameters |-> parameters, meta |-> meta],
                add_interaction(mol, type_, atoms, parameters, meta))

AddOrReplaceInteraction ==
    \E type_ \in MolTypes, atoms \in AtomTuples,
       parameters \in Parameters, meta \in Metas :
        LET res == add_or_replace_interaction(mol, type_, atoms, parameters, meta)
        IN /\ NumInteractions(res.mol) <= MaxInter
           /\ Call("add_or_replace_interaction",
                   [type_ |-> type_, atoms |-> atoms,
                    parameters |-> parameters, meta |-> meta],
                   res)

RemoveInteraction ==
    \E type_ \in MolTypes, atoms \in AtomTuples, version \in Versions :
        Call("remove_interaction",
             [type_ |-> type_, atoms |-> atoms, version |-> version],
             remove_interaction(mol, type_, atoms, version))

MergeMolecule(others) ==
    \E k \in others :
        /\ Len(mol.nodes) + Len(Others[k].nodes) <= MaxNodes
        /\ IF Len(mol.nodes) = 0 THEN TRUE
           ELSE SetMax(NodeSet(mol)) + Len(Others[k].nodes) <= MaxMergedId
        /\ NumInteractions(mol) + NumInteractions(Others[k]) <= MaxInter
        /\ Call("merge_molecule", [other |-> k],
                merge_molecule(mol, Others[k]))

\* every operation of Molecule
MolNext ==
    \/ AddNode({[resid |-> 1]})
    \/ RemoveNodesFrom
    \/ AddInteraction
    \/ AddOrReplaceInteraction
    \/ RemoveInteraction
    \/ MergeMolecule({1, 3})
    \/ Return

MolSpec == MolInit /\ [][MolNext]_vars

\* the receiver is built node by node and by merges
MergeNext ==
    \/ AddNode(NodeAttrs)
    \/ SetNrexcl
    \/ MergeMolecule(1..Len(Others))
    \/ Return

MergeSpec == MolInit /\ [][MergeNext]_vars

\* the interaction lists of a molecule with the particles 0 and 1
InterInit ==
    /\ mol = add_node(add_node(Molecule("ff1"), 0, [resid |-> 1]), 1, [resid |-> 1])
    /\ last = Idle
    /\ block = NoBlock
    /\ match = NoMatch
    /\ cov = NoCover
    /\ dm = NoRun
    /\ system = NoSystem
    /\ rs = NoCall

InterNext ==
    \/ AddInteraction
    \/ AddOrReplaceInteraction
    \/ RemoveInteraction
    \/ Return

InterSpec == InterInit /\ [][InterNext]_vars

(***************************************************************************)
(* Claims about Molecule.                                                  *)
(***************************************************************************)
IsMerge == last.op = "merge_molecule"

Other == Others[last.args.other]

SameMolecule(a, b) ==
    /\ a.nodes = b.nodes
    /\ a.attr = b.attr
    /\ a.edges = b.edges
    /\ a.interactions = b.interactions
    /\ a.nrexcl = b.nrexcl

\* every interaction and every edge of o is in m with its atom ids sent
\* through tr
MergedThrough(m, o, tr(_)) ==
    /\ \A t \in MolTypes : \A i \in 1..Len(o.interactions[t]) :
          \E j \in 1..Len(m.interactions[t]) :
              m.interactions[t][j] =
                  Interaction([a \in 1..Len(o.interactions[t][i].atoms) |->
                                  tr(o.interactions[t][i].atoms[a])],
                              o.interactions[t][i].parameters,
                              o.interactions[t][i].meta)
    /\ \A e \in o.edges : {tr(n) : n \in e} \in m.edges

HasResid(m, idx) == "resid" \in DOMAIN m.attr[idx]

\* C1, as stated: after a successful merge into a non-empty receiver the
\* receiver has |M1|+|M2| particles and every interaction and edge of M2 is
\* present with each atom id k replaced by k + max(ids of M1) + 1.
C1_MergeShiftsByMaxPlusOne ==
    (IsMerge /\ last.raised = "none" /\ Len(last.pre.nodes) > 0) =>
        LET shift == SetMax(NodeSet(last.pre)) + 1
            tr(k) == k + shift
        IN /\ Len(mol.nodes) = Len(last.pre.nodes) + Len(Other.nodes)
           /\ MergedThrough(mol, Other, tr)

\* C1, amended: when nrexcl and the force field agree and the receiver's
\* highest-id particle and every particle of M2 carry a resid, the merge
\* succeeds, the receiver has |M1|+|M2| particles, and every interaction and
\* edge of M2 is present with each atom id k replaced by max(ids of M1) + 1 +
\* (the position of k in M2's node order, counted from 0).
C1_MergeRenumbersInOrder ==
    (/\ IsMerge
     /\ Len(last.pre.nodes) > 0
     /\ last.pre.nrexcl = Other.nrexcl
     /\ last.pre.force_field = Other.force_field
     /\ HasResid(last.pre, SetMax(NodeSet(last.pre)))
     /\ \A k \in NodeSet(Other) : HasResid(Other, k)) =>
        LET first == SetMax(NodeSet(last.pre)) + 1
            tr(k) == first + Cardinality({i \in 1..Len(Other.nodes) :
                                             i < IndexOf(Other.nodes, k)})
        IN /\ last.raised = "none"
           /\ Len(mol.nodes) = Len(last.pre.nodes) + Len(Other.nodes)
           /\ Cardinality(NodeSet(mol)) = Len(mol.nodes)
           /\ MergedThrough(mol, Other, tr)

\* a molecule whose ids are 5, 2 was merged into a non-empty receiver
C1_Witness ==
    /\ IsMerge
    /\ last.raised = "none"
    /\ Len(last.pre.nodes) > 0
    /\ Other.nodes = <<5, 2>>

\* C2: merge_molecule raises whenever nrexcl or the force fields differ, and
\* then the receiver's particles, edges, interactions and nrexcl are what
\* they were before the call.
C2_MismatchRaisesAndKeepsReceiver ==
    (/\ IsMerge
     /\ \/ last.pre.nrexcl # Other.nrexcl
        \/ last.pre.force_field # Other.force_field) =>
        /\ last.raised = "ValueError"
        /\ SameMolecule(mol, last.pre)

\* a merge into a non-empty receiver was refused for nrexcl alone
C2_Witness ==
    /\ IsMerge
    /\ Len(last.pre.nodes) > 0
    /\ last.pre.nrexcl # Other.nrexcl
    /\ last.pre.force_field = Other.force_field
    /\ last.raised = "ValueError"

\* C3: a successful merge_molecule returns the map that sends every particle
\* id of `other` to the id it received in the receiver.
C3_MergeReturnsCorrespondence ==
    (IsMerge /\ last.raised = "none") =>
        /\ last.ret # {}
        /\ \A f \in last.ret :
              /\ DOMAIN f = NodeSet(Other)
              /\ \A k \in NodeSet(Other) :
                    f[k] = SetMax(NodeSet(last.pre) \cup {-1}) + IndexOf(Other.nodes, k)

\* C4: in every reachable state every atom id of every stored interaction
\* is a particle of the molecule.
C4_InteractionAtomsAreParticles ==
    \A t \in MolTypes : \A i \in 1..Len(mol.interactions[t]) :
        \A a \in 1..Len(mol.interactions[t][i].atoms) :
            mol.interactions[t][i].atoms[a] \in NodeSet(mol)

OtherTypesKept(type_) ==
    \A t \in MolTypes \ {type_} : mol.interactions[t] = last.pre.interactions[t]

\* C5: remove_interaction(type, atoms, version) deletes exactly one
\* interaction of that type with these atoms and this version (0 when the
\* metadata has none), and raises KeyError, leaving the lists unchanged,
\* exactly when no stored interaction has those atoms and that version.
C5_RemoveMatchesAtomsAndVersion ==
    (last.op = "remove_interaction") =>
        LET lst == last.pre.interactions[last.args.type_]
            hits == {i \in 1..Len(lst) :
                        /\ lst[i].atoms = last.args.atoms
                        /\ MetaVersion(lst[i].meta) = last.args.version}
        IN IF hits = {}
           THEN /\ last.raised = "KeyError"
                /\ mol.interactions = last.pre.interactions
           ELSE /\ last.raised = "none"
                /\ OtherTypesKept(last.args.type_)
                /\ \E i \in hits :
                      mol.interactions[last.args.type_] =
                          SelectSeqIdx(lst, (1..Len(lst)) \ {i})

IsAddOrReplace == last.op = "add_or_replace_interaction"

ReplaceHits ==
    LET lst == last.pre.interactions[last.args.type_]
    IN {i \in 1..Len(lst) :
           /\ lst[i].atoms = last.args.atoms
           /\ MetaVersion(lst[i].meta) = MetaVersion(last.args.meta)}

GivenInteraction ==
    Interaction(last.args.atoms, last.args.parameters, last.args.meta)

ReplacedInPlace ==
    LET lst == last.pre.interactions[last.args.type_]
    IN /\ last.raised = "none"
       /\ OtherTypesKept(last.args.type_)
       /\ Len(mol.interactions[last.args.type_]) = Len(lst)
       /\ \A i \in 1..Len(lst) :
             mol.interactions[last.args.type_][i] =
                 IF i = SetMin(ReplaceHits) THEN GivenInteraction ELSE lst[i]

AppendedOne ==
    /\ last.raised = "none"
    /\ OtherTypesKept(last.args.type_)
    /\ mol.interactions[last.args.type_] =
           Append(last.pre.interactions[last.args.type_], GivenInteraction)

\* C6, as stated: add_or_replace_interaction overwrites in place the first
\* interaction with these atoms and this version, and when there is none it
\* appends exactly one new interaction at the end of the list.
C6_ReplacesOrAppends ==
    IsAddOrReplace => IF ReplaceHits # {} THEN ReplacedInPlace ELSE AppendedOne

\* C6, amended: it overwrites in place the first interaction with these
\* atoms and this version; when there is none it appends exactly one new
\* interaction at the end of the list if every atom is a particle of the
\* molecule, and otherwise raises ValueError and leaves the lists unchanged.
C6_ReplacesOrAppendsKnownAtoms ==
    IsAddOrReplace =>
        IF ReplaceHits # {} THEN ReplacedInPlace
        ELSE IF Range(last.args.atoms) \subseteq NodeSet(last.pre) THEN AppendedOne
        ELSE /\ last.raised = "ValueError"
             /\ mol.interactions = last.pre.interactions

\* the second of two interactions with the same atoms was overwritten,
\* the first having another version
C6_Witness ==
    /\ IsAddOrReplace
    /\ Len(last.pre.interactions[last.args.type_]) = 2
    /\ ReplaceHits = {2}
    /\ last.pre.interactions[last.args.type_][1].atoms = last.args.atoms
    /\ last.pre.interactions[last.args.type_][2].parameters # last.args.parameters
    /\ mol.interactions[last.args.type_][2] = GivenInteraction

(***************************************************************************)
(* Pattern matching primitives: LinkPredicate, Choice, NotDefinedOrNot and *)
(* attributes_match.  A template value is a record: kind "literal" with    *)
(* the value, kind "Choice" with the collection of accepted values, or     *)
(* kind "NotDefinedOrNot" with the refused value.                          *)
(***************************************************************************)
Literal(v) == [kind |-> "literal", value |-> v]

Choice(values) == [kind |-> "Choice", value |-> values]

NotDefinedOrNot(v) == [kind |-> "NotDefinedOrNot", value |-> v]

\* isinstance(value, LinkPredicate)
IsLinkPredicate(value) == value.kind \in {"Choice", "NotDefinedOrNot"}

\* Choice.match: node.get(key) in self.value
\* NotDefinedOrNot.match: key not in node or node[key] != self.value
PredicateMatch(value, node, key) ==
    IF value.kind = "Choice"
    THEN Get(node, key, "None") \in value.value
    ELSE key \notin DOMAIN node \/ node[key] # value.value

\* attributes_match returning at the first constrained key, whatever follows
RECURSIVE MatchLoopFirstKey(_, _, _, _)
MatchLoopFirstKey(attributes, template_attributes, ignore_keys, todo) ==
    IF todo = {} THEN TRUE
    ELSE LET attr == CHOOSE k \in todo : TRUE
             value == template_attributes[attr]
         IN IF attr \in ignore_keys
            THEN MatchLoopFirstKey(attributes, template_attributes, ignore_keys,
                                   todo \ {attr})
            ELSE IF IsLinkPredicate(value)
            THEN PredicateMatch(value, attributes, attr)
            ELSE Get(attributes, attr, "None") = value.value

\* the loop of attributes_match over the items of template_attributes that
\* are still to do
RECURSIVE MatchLoop(_, _, _, _)
MatchLoop(attributes, template_attributes, ignore_keys, todo) ==
    IF todo = {} THEN TRUE
    ELSE LET attr == CHOOSE k \in todo : TRUE
             value == template_attributes[attr]
             rest == todo \ {attr}
         IN IF attr \in ignore_keys
            THEN MatchLoop(attributes, template_attributes, ignore_keys, rest)
            ELSE IF IsLinkPredicate(value)
            THEN IF ~PredicateMatch(value, attributes, attr)
                 THEN FALSE
                 ELSE MatchLoop(attributes, template_attributes, ignore_keys, rest)
            ELSE IF Get(attributes, attr, "None") # value.value
                 THEN FALSE
                 ELSE MatchLoop(attributes, template_attributes, ignore_keys, rest)

attributes_match_first_key(attributes, template_attributes, ignore_keys) ==
    MatchLoopFirstKey(attributes, template_attributes, ignore_keys,
                      DOMAIN template_attributes)

\* attributes_match with ignore_keys left out of account
attributes_match_no_ignore(attributes, template_attributes, ignore_keys) ==
    MatchLoop(attributes, template_attributes, {}, DOMAIN template_attributes)

attributes_match(attributes, template_attributes, ignore_keys) ==
    MatchLoop(attributes, template_attributes, ignore_keys,
              DOMAIN template_attributes)

(***************************************************************************)
(* The inputs of attributes_match, and the calls made on them: one call,   *)
(* then calls with one key less in the template, or with an entry of the   *)
(* attributes changed.  `match` holds the arguments and the result of the  *)
(* last call, and in `before` the result of the call before it.            *)
(***************************************************************************)
AllKeys == <<"atomname", "resname", "chain">>

Keys == {AllKeys[i] : i \in 1..NumKeys}

Values == {"None", "a", "b"}

TemplateValues ==
    {Literal("a"), Literal("None"),
     Choice({"a", "b"}), Choice({"None", "b"}),
     NotDefinedOrNot("a"), NotDefinedOrNot("None")}

Dicts(keys, values) == UNION {[ks -> values] : ks \in SUBSET keys}

MatchInit ==
    /\ match \in [op : {"none"},
                  attributes : Dicts(Keys, Values),
                  template_attributes : Dicts(Keys, TemplateValues),
                  ignore_keys : SUBSET Keys,
                  key : {"None"},
                  result : {FALSE},
                  before : {FALSE}]
    /\ mol = Molecule("None")
    /\ last = Idle
    /\ block = NoBlock
    /\ cov = NoCover
    /\ dm = NoRun
    /\ system = NoSystem
    /\ rs = NoCall

MatchCall(op, key, attributes, template_attributes) ==
    /\ match' = [op |-> op,
                 attributes |-> attributes,
                 template_attributes |-> template_attributes,
                 ignore_keys |-> match.ignore_keys,
                 key |-> key,
                 result |-> attributes_match(attributes, template_attributes,
                                             match.ignore_keys),
                 before |-> match.result]
    /\ UNCHANGED <<mol, last, block, cov, dm, system, rs>>

AttributesMatch ==
    /\ match.op = "none"
    /\ MatchCall("attributes_match", "None",
                 match.attributes, match.template_attributes)

\* the same call with the key `key` taken out of the template
MatchWithoutKey ==
    \E key \in DOMAIN match.template_attributes :
        /\ match.op # "none"
        /\ MatchCall("without_key", key, match.attributes,
                     [k \in DOMAIN match.template_attributes \ {key} |->
                         match.template_attributes[k]])

\* the same call with attributes[key] set to a value, the key being ignored
\* or absent from the template
MatchOtherValue ==
    \E key \in Keys, v \in Values :
        /\ match.op # "none"
        /\ key \in match.ignore_keys \/ key \notin DOMAIN match.template_attributes
        /\ MatchCall("other_value", key,
                     Update(match.attributes, [k \in {key} |-> v]),
                     match.template_attributes)

\* the same call with the key `key` taken out of the attributes, the key
\* being ignored or absent from the template
MatchUnsetValue ==
    \E key \in DOMAIN match.attributes :
        /\ match.op # "none"
        /\ key \in match.ignore_keys \/ key \notin DOMAIN match.template_attributes
        /\ MatchCall("unset_value", key,
                     [k \in DOMAIN match.attributes \ {key} |-> match.attributes[k]],
                     match.template_attributes)

MatchNext ==
    \/ AttributesMatch
    \/ MatchWithoutKey
    \/ MatchOtherValue
    \/ MatchUnsetValue

MatchSpec == MatchInit /\ [][MatchNext]_vars

(***************************************************************************)
(* Claims about attributes_match.                                          *)
(***************************************************************************)
\* C7: attributes_match is monotone in its constraints: if it is true for a
\* template, it is true for the template without any one of its keys.
C7_MonotoneInConstraints ==
    (match.op = "without_key" /\ match.before) => match.result

\* a match that held was made again without a key that constrained it,
\* another constraint remaining
C7_Witness ==
    /\ match.op = "without_key"
    /\ match.before
    /\ match.key \notin match.ignore_keys
    /\ DOMAIN match.template_attributes \ match.ignore_keys # {}
    /\ match.result

\* what the claim C8 says of one key
ClaimedKeyMatch(attributes, value, k) ==
    IF value.kind = "Choice"
    THEN k \in DOMAIN attributes /\ attributes[k] \in value.value
    ELSE IF value.kind = "NotDefinedOrNot"
    THEN k \notin DOMAIN attributes \/ attributes[k] # value.value
    ELSE k \in DOMAIN attributes /\ attributes[k] = value.value

\* the same with a missing key read as None, as dict.get does
GetKeyMatch(attributes, value, k) ==
    LET got == IF k \in DOMAIN attributes THEN attributes[k] ELSE "None"
    IN IF value.kind = "Choice"
       THEN got \in value.value
       ELSE IF value.kind = "NotDefinedOrNot"
       THEN k \notin DOMAIN attributes \/ attributes[k] # value.value
       ELSE got = value.value

UnconstrainedChange == match.op \in {"other_value", "unset_value"}

\* C8, as stated: attributes_match is true iff for every key k of the
\* template that is not ignored: for Choice(S), attrs has a value for k that
\* is in S; for NotDefinedOrNot(v), k is missing from attrs or attrs[k]
\* differs from v; otherwise attrs[k] equals the template's value.  The
\* result does not depend on entries of attrs whose key is ignored or absent
\* from the template.
C8_MatchIsConjunction ==
    /\ match.op # "none" =>
          match.result =
              (\A k \in DOMAIN match.template_attributes \ match.ignore_keys :
                  ClaimedKeyMatch(match.attributes, match.template_attributes[k], k))
    /\ UnconstrainedChange => match.result = match.before

\* C8, amended: the same, with a key that is missing from attrs read as None
\* in the Choice and in the equality case (dict.get): Choice(S) also matches
\* a missing key when None is in S, and a template value None also matches a
\* missing key.
C8_MatchIsConjunctionOverGet ==
    /\ match.op # "none" =>
          match.result =
              (\A k \in DOMAIN match.template_attributes \ match.ignore_keys :
                  GetKeyMatch(match.attributes, match.template_attributes[k], k))
    /\ UnconstrainedChange => match.result = match.before

\* a call that matched on a Choice and on a literal value, with an ignored
\* key of the template that does not match
C8_Witness ==
    /\ match.op = "attributes_match"
    /\ match.result
    /\ \E k \in DOMAIN match.template_attributes \ match.ignore_keys :
          /\ match.template_attributes[k].kind = "Choice"
          /\ k \in DOMAIN match.attributes
    /\ \E k \in DOMAIN match.template_attributes \cap match.ignore_keys :
          ~GetKeyMatch(match.attributes, match.template_attributes[k], k)

(***************************************************************************)
(* Block: an nx.Graph with ordered nodes keyed by atom name, the           *)
(* interactions by type (a type without list reads as the empty list),     *)
(* the name, and nrexcl, "undefined" as long as the attribute is not set.  *)
(***************************************************************************)
BlockTypes == {"bonds", "angles", "constraints", "impropers"}

Block ==
    [name |-> "None",
     nodes |-> <<>>,
     attr |-> EmptyDict,
     edges |-> {},
     interactions |-> [t \in BlockTypes |-> <<>>],
     nrexcl |-> "undefined"]

NumBlockInteractions(b) ==
    Len(b.interactions["bonds"]) + Len(b.interactions["angles"])
    + Len(b.interactions["constraints"]) + Len(b.interactions["impropers"])

\* Block.add_atom
add_atom(b, atom) ==
    IF "atomname" \notin DOMAIN atom
    THEN [block |-> b, raised |-> "ValueError", ret |-> {}]
    ELSE [block |-> add_node(b, atom.atomname, atom), raised |-> "none", ret |-> {}]

\* Block.atoms: the nodes that carry attributes, in node order
BlockAtoms(b) ==
    SelectSeqIdx(b.nodes, {i \in 1..Len(b.nodes) : b.attr[b.nodes[i]] # EmptyDict})

\* nx.Graph.add_edge(u, v): nodes that are missing are created without
\* attributes
add_edge(b, u, v) ==
    [add_node(add_node(b, u, EmptyDict), v, EmptyDict) EXCEPT !.edges = @ \cup {{u, v}}]

\* self.add_edges_from(zip(atoms[:-1], atoms[1:])), from the i-th pair on
RECURSIVE add_edges_from(_, _, _)
add_edges_from(b, atoms, i) ==
    IF i >= Len(atoms) THEN b
    ELSE add_edges_from(add_edge(b, atoms[i], atoms[i + 1]), atoms, i + 1)

\* the loop of make_edges_from_interaction_type from the i-th interaction on
RECURSIVE MakeEdgesLoop(_, _, _)
MakeEdgesLoop(b, lst, i) ==
    IF i > Len(lst) THEN b
    ELSE IF Get(lst[i].meta, "edge", TRUE)
    THEN MakeEdgesLoop(add_edges_from(b, lst[i].atoms, 1), lst, i + 1)
    ELSE MakeEdgesLoop(b, lst, i + 1)

\* Block.make_edges_from_interaction_type
make_edges_from_interaction_type(b, type_) ==
    MakeEdgesLoop(b, Get(b.interactions, type_, <<>>), 1)

known_types == <<"bonds", "angles", "dihedrals", "cmap", "constraints">>

\* the loop of make_edges_from_interactions from the i-th known type on
RECURSIVE MakeEdgesTypes(_, _)
MakeEdgesTypes(b, i) ==
    IF i > Len(known_types) THEN b
    ELSE MakeEdgesTypes(make_edges_from_interaction_type(b, known_types[i]), i + 1)

\* Block.make_edges_from_interactions
make_edges_from_interactions(b) == MakeEdgesTypes(b, 1)

\* name_to_idx of to_molecule: a later atom of the same atomname overrides
name_to_idx(b, atom_offset) ==
    LET atoms == BlockAtoms(b)
        names == {b.attr[atoms[i]].atomname : i \in 1..Len(atoms)}
    IN [n \in names |->
           atom_offset - 1
           + SetMax({i \in 1..Len(atoms) : b.attr[atoms[i]].atomname = n})]

\* Block.to_molecule: the molecule, or KeyError for an interaction or an edge
\* on a name that is not the atomname of an atom
to_molecule(b, atom_offset, resid, offset_charge_group) ==
    LET atoms == BlockAtoms(b)
        to_idx == name_to_idx(b, atom_offset)
        new_atom(n) ==
            Update(b.attr[n],
                   [k \in {"resid", "resname", "charge_group"} |->
                       IF k = "resid" THEN resid
                       ELSE IF k = "resname" THEN b.name
                       ELSE Get(b.attr[n], "charge_group", 0) + offset_charge_group])
        ids == atom_offset..(atom_offset + Len(atoms) - 1)
        lost == \/ \E t \in DOMAIN b.interactions :
                      \E i \in 1..Len(b.interactions[t]) :
                          \E j \in 1..Len(b.interactions[t][i].atoms) :
                              b.interactions[t][i].atoms[j] \notin DOMAIN to_idx
                \/ \E e \in b.edges : \E n \in e : n \notin DOMAIN to_idx
        \* mol.add_interaction(name, atoms, interaction.parameters)
        added(t) ==
            [i \in 1..Len(b.interactions[t]) |->
                Interaction([j \in 1..Len(b.interactions[t][i].atoms) |->
                                to_idx[b.interactions[t][i].atoms[j]]],
                            b.interactions[t][i].parameters,
                            EmptyDict)]
        m == [nodes |-> [i \in 1..Len(atoms) |-> atom_offset + i - 1],
              attr |-> [idx \in ids |-> new_atom(atoms[idx - atom_offset + 1])],
              edges |-> {{to_idx[n] : n \in e} : e \in b.edges},
              interactions |-> [t \in DOMAIN b.interactions |-> added(t)],
              nrexcl |-> IF b.nrexcl = "undefined" THEN "None" ELSE b.nrexcl,
              force_field |-> "None"]
    IN IF lost
       THEN [block |-> b, raised |-> "KeyError", ret |-> {}]
       ELSE [block |-> b, raised |-> "none", ret |-> {m}]

(***************************************************************************)
(* A block under construction, and the calls made on it.                   *)
(***************************************************************************)
AtomDicts ==
    {[atomname |-> "A"],
     [atomname |-> "B", charge_group |-> 1],
     [atomname |-> "C"],
     [charge_group |-> 1]}

BlockAtomTuples == {<<"A", "B">>, <<"A", "B", "C">>}

BlockMetas == {EmptyDict, [edge |-> FALSE]}

ToMoleculeArgs ==
    {[atom_offset |-> 0, resid |-> 1, offset_charge_group |-> 1],
     [atom_offset |-> 2, resid |-> 3, offset_charge_group |-> 0]}

BlockInit ==
    /\ block = Block
    /\ mol = Molecule("None")
    /\ last = Idle
    /\ match = NoMatch
    /\ cov = NoCover
    /\ dm = NoRun
    /\ system = NoSystem
    /\ rs = NoCall

BlockCall(op, args, res) ==
    /\ last.op = "none"
    /\ block' = res.block
    /\ last' = [op |-> op, args |-> args, pre |-> block,
                raised |-> res.raised, ret |-> res.ret]
    /\ UNCHANGED <<mol, match, cov, dm, system, rs>>

BlockAddAtom ==
    \E atom \in AtomDicts :
        /\ last.op = "none"
        /\ BlockCall("add_atom", [atom |-> atom], add_atom(block, atom))

\* block.interactions[type_].append(Interaction(atoms, parameters, meta)),
\* as the reader of a force field file does
BlockAppendInteraction ==
    \E type_ \in BlockTypes, atoms \in BlockAtomTuples, meta \in BlockMetas :
        /\ NumBlockInteractions(block) < MaxBlockInter
        /\ BlockCall("append_interaction",
                     [type_ |-> type_, atoms |-> atoms, meta |-> meta],
                     [block |-> [block EXCEPT !.interactions[type_] =
                                    Append(@, Interaction(atoms, "p1", meta))],
                      raised |-> "none", ret |-> {}])

\* block.nrexcl = 1
BlockSetNrexcl ==
    /\ block.nrexcl = "undefined"
    /\ BlockCall("set_nrexcl", [nrexcl |-> "1"],
                 [block |-> [block EXCEPT !.nrexcl = "1"],
                  raised |-> "none", ret |-> {}])

BlockMakeEdges ==
    /\ last.op = "none"
    /\ BlockCall("make_edges_from_interactions", EmptyDict,
                 [block |-> make_edges_from_interactions(block),
                  raised |-> "none", ret |-> {}])

BlockToMolecule ==
    \E args \in ToMoleculeArgs :
        /\ last.op = "none"
        /\ BlockCall("to_molecule", args,
                     to_molecule(block, args.atom_offset, args.resid,
                                 args.offset_charge_group))

BlockNext ==
    \/ BlockAddAtom
    \/ BlockAppendInteraction
    \/ BlockSetNrexcl
    \/ BlockMakeEdges
    \/ BlockToMolecule
    \/ Return

BlockSpec == BlockInit /\ [][BlockNext]_vars

(***************************************************************************)
(* Claims about Block.                                                     *)
(***************************************************************************)
\* the consecutive atom pairs of the interactions of the given types that
\* are not marked edge=False
ConsecutivePairs(b, types) ==
    {{b.interactions[t][i].atoms[j], b.interactions[t][i].atoms[j + 1]} :
        <<t, i, j>> \in
            {x \in (types \cap DOMAIN b.interactions) \X (1..MaxBlockInter) \X (1..2) :
                /\ x[2] <= Len(b.interactions[x[1]])
                /\ x[3] < Len(b.interactions[x[1]][x[2]].atoms)
                /\ Get(b.interactions[x[1]][x[2]].meta, "edge", TRUE)}}

\* C9: after make_edges_from_interactions on a block that had no edges, the
\* edge set is exactly the set of consecutive atom pairs of the interactions
\* of type bonds, angles, dihedrals or cmap that are not marked edge=False;
\* interactions of every other type contribute no edge.
C9_EdgesFromConsecutiveTypes ==
    (last.op = "make_edges_from_interactions" /\ last.pre.edges = {}) =>
        block.edges = ConsecutivePairs(block, {"bonds", "angles", "dihedrals", "cmap"})

\* the block has an attribute dict for every node, and its interactions are
\* on its nodes
BlockOnItsAtoms(b) ==
    /\ \A n \in Range(b.nodes) : b.attr[n] # EmptyDict
    /\ \A t \in DOMAIN b.interactions :
          \A i \in 1..Len(b.interactions[t]) :
              Range(b.interactions[t][i].atoms) \subseteq Range(b.nodes)

\* C10: to_molecule(atom_offset, resid, offset_charge_group) returns a
\* molecule whose particles are the block's atoms in insertion order with
\* ids atom_offset, atom_offset+1, ..., each with the given resid and its
\* charge_group (0 when absent) plus offset_charge_group; every interaction
\* and every edge of the block is in it exactly once, on those ids, with the
\* same parameters and metadata; its nrexcl is the block's when the block
\* defines one.  Stated for a block whose interactions are on its atoms.
C10_ToMoleculeCarriesBlock ==
    (last.op = "to_molecule" /\ BlockOnItsAtoms(block)) =>
        /\ last.raised = "none"
        /\ \A m \in last.ret :
              LET o == last.args.atom_offset
                  idx(n) == o + IndexOf(block.nodes, n) - 1
              IN /\ m.nodes = [i \in 1..Len(block.nodes) |-> o + i - 1]
                 /\ \A n \in Range(block.nodes) :
                       /\ m.attr[idx(n)].resid = last.args.resid
                       /\ m.attr[idx(n)].charge_group =
                              Get(block.attr[n], "charge_group", 0)
                              + last.args.offset_charge_group
                 /\ \A t \in DOMAIN block.interactions :
                       m.interactions[t] =
                           [i \in 1..Len(block.interactions[t]) |->
                               Interaction(
                                   [j \in 1..Len(block.interactions[t][i].atoms) |->
                                       idx(block.interactions[t][i].atoms[j])],
                                   block.interactions[t][i].parameters,
                                   block.interactions[t][i].meta)]
                 /\ m.edges = {{idx(n) : n \in e} : e \in block.edges}
                 /\ block.nrexcl # "undefined" => m.nrexcl = block.nrexcl

(***************************************************************************)
(* cover(to_cover, options): the exact cover of the list of names to_cover *)
(* by options, found by backtracking.  The result is what the call raised  *)
(* and what it returned: {} for None, {found} for the list found.          *)
(***************************************************************************)
\* the number of times item is in the list
Count(list, item) == Cardinality({i \in 1..Len(list) : list[i] = item})

\* list.remove(item) of a list that holds item: the leftmost one goes
ListRemove(list, item) ==
    LET at == SetMin({i \in 1..Len(list) : list[i] = item})
    IN SelectSeqIdx(list, (1..Len(list)) \ {at})

\* for item in option: left_to_cover.remove(item), from the i-th item on;
\* {} when a remove raises ValueError, the item being no longer in the list
RECURSIVE RemoveItems(_, _, _)
RemoveItems(left_to_cover, option, i) ==
    IF i > Len(option) THEN {left_to_cover}
    ELSE IF option[i] \notin Range(left_to_cover) THEN {}
    ELSE RemoveItems(ListRemove(left_to_cover, option[i]), option, i + 1)

\* cover, from the option at idx on.  An empty option passes the test of
\* line 84 and takes nothing away, so that line 90 makes the very same call
\* again, without end: RecursionError.
RECURSIVE CoverLoop(_, _, _)
CoverLoop(to_cover, options, idx) ==
    IF to_cover = <<>> THEN [raised |-> "none", ret |-> {<<>>}]
    ELSE IF idx > Len(options) THEN [raised |-> "none", ret |-> {}]
    ELSE LET option == options[idx]
         IN IF \A i \in 1..Len(option) : option[i] \in Range(to_cover)
            THEN IF option = <<>>
                 THEN [raised |-> "RecursionError", ret |-> {}]
                 ELSE LET left == RemoveItems(to_cover, option, 1)
                      IN IF left = {}
                         THEN [raised |-> "ValueError", ret |-> {}]
                         ELSE LET left_to_cover == CHOOSE l \in left : TRUE
                                  found == CoverLoop(left_to_cover,
                                                     SubSeq(options, idx, Len(options)), 1)
                              IN IF found.raised # "none"
                                 THEN found
                                 ELSE IF found.ret # {}
                                 THEN [raised |-> "none",
                                       ret |-> {<<option>> \o f : f \in found.ret}]
                                 ELSE CoverLoop(to_cover, options, idx + 1)
            ELSE CoverLoop(to_cover, options, idx + 1)

cover(to_cover, options) == CoverLoop(to_cover, options, 1)

(***************************************************************************)
(* The inputs of cover, and the call.                                      *)
(***************************************************************************)
Names == {"a", "b"}

SeqsUpTo(S, n) == UNION {[1..k -> S] : k \in 0..n}

\* an option is the tuple of names of a modification mapping
Options == SeqsUpTo(Names, MaxOptionLen)

CoverInit ==
    /\ cov \in [op : {"none"},
                to_cover : SeqsUpTo(Names, MaxToCover),
                options : SeqsUpTo(Options, MaxOptions)]
    /\ mol = Molecule("None")
    /\ last = Idle
    /\ block = NoBlock
    /\ match = NoMatch
    /\ dm = NoRun
    /\ system = NoSystem
    /\ rs = NoCall

Cover ==
    /\ cov.op = "none"
    /\ cov' = [op |-> "cover",
               to_cover |-> cov.to_cover,
               options |-> cov.options,
               res |-> cover(cov.to_cover, cov.options)]
    /\ UNCHANGED <<mol, last, block, match, dm, system, rs>>

CoverNext ==
    \/ Cover

CoverSpec == CoverInit /\ [][CoverNext]_vars

(***************************************************************************)
(* Claims about cover.                                                     *)
(***************************************************************************)
\* the names of a list of options, one after the other
RECURSIVE Flatten(_)
Flatten(found) ==
    IF found = <<>> THEN <<>> ELSE Head(found) \o Flatten(Tail(found))

\* found covers to_cover exactly: its options are among the options given,
\* and their names taken together are the names of to_cover, as a multiset
IsExactCover(found, to_cover, options) ==
    /\ Range(found) \subseteq Range(options)
    /\ \A n \in Names : Count(Flatten(found), n) = Count(to_cover, n)

\* the names of the options, each option taken times[i] times, from i on
RECURSIVE TimesCount(_, _, _, _)
TimesCount(options, times, n, i) ==
    IF i > Len(options) THEN 0
    ELSE times[i] * Count(options[i], n) + TimesCount(options, times, n, i + 1)

ExactCoverExists(to_cover, options) ==
    \E times \in [1..Len(options) -> 0..Len(to_cover)] :
        \A n \in Names : TimesCount(options, times, n, 1) = Count(to_cover, n)

\* every option names a modification at least
NoEmptyOption(options) == \A i \in 1..Len(options) : options[i] # <<>>

\* C11: cover(to_cover, options) returns, without raising, a list of
\* options that covers to_cover exactly whenever such a selection exists,
\* and returns None exactly when none exists; for every finite input,
\* options that repeat a name included.  Stated for the options that name
\* one modification at least.
C11_CoverFindsExactCover ==
    (cov.op = "cover" /\ NoEmptyOption(cov.options)) =>
        /\ cov.res.raised = "none"
        /\ \A found \in cov.res.ret : IsExactCover(found, cov.to_cover, cov.options)
        /\ (cov.res.ret = {}) <=> ~ExactCoverExists(cov.to_cover, cov.options)

(***************************************************************************)
(* do_mapping.  A match is the triple that mapping.map yields:             *)
(*   match[1]  the correspondence {mol_idx: {template_idx: weight}},       *)
(*   match[2]  the template graph (a block, or a modification),            *)
(*   match[3]  the references {out_idx: mol_idx}.                          *)
(* mol_to_out and out_to_mol are dicts of dicts.                           *)
(***************************************************************************)
\* d[k1][k2] = v on a dict of dicts, d[k1] being made when it is missing
SetItem2(d, k1, k2, v) ==
    Update(d, [k \in {k1} |-> Update(Get(d, k1, EmptyDict), [j \in {k2} |-> v])])

\* the assignments d[k1][k2] = v for the triples <<k1, k2, v>> of a set in
\* which no pair <<k1, k2>> is twice
SetItems2(d, triples) ==
    LET k1s == {t[1] : t \in triples}
    IN Update(d, [k1 \in k1s |->
                     Update(Get(d, k1, EmptyDict),
                            [k2 \in {t[2] : t \in {x \in triples : x[1] = k1}} |->
                                (CHOOSE t \in triples : t[1] = k1 /\ t[2] = k2)[3]])])

\* the template indices to which the particles of a correspondence map
Mapped(mol_to_template) ==
    UNION {DOMAIN mol_to_template[mol_idx] : mol_idx \in DOMAIN mol_to_template}

\* apply_block_mapping.  block_to_out is what merge_molecule returned: {}
\* stands for None, and block_to_out[block_idx] then raises TypeError.
apply_block_mapping(match_, graph_out, mol_to_out, out_to_mol) ==
    LET mol_to_block == match_[1]
        blocks_to == match_[2]
        with_nrexcl == IF graph_out.nrexcl = "None"
                       THEN [graph_out EXCEPT !.nrexcl = blocks_to.nrexcl]
                       ELSE graph_out
        merged == merge_molecule(with_nrexcl, blocks_to)
        block_to_out == merged.ret
        overlap == DOMAIN mol_to_out \cap DOMAIN mol_to_block
        mapped_block_idxs == Mapped(mol_to_block)
        spawned == NodeSet(blocks_to) \ mapped_block_idxs
        res(g, m2o, o2m, raised, n2o) ==
            [graph_out |-> g, mol_to_out |-> m2o, out_to_mol |-> o2m,
             raised |-> raised, overlap |-> overlap, none_to_one |-> n2o]
    IN IF merged.raised # "none"
       THEN res(merged.mol, mol_to_out, out_to_mol, merged.raised, {})
       ELSE IF block_to_out = {}
       THEN IF mapped_block_idxs # {} \/ spawned # {}
            THEN res(merged.mol, mol_to_out, out_to_mol, "TypeError", {})
            ELSE res(merged.mol, mol_to_out, out_to_mol, "none", {})
       ELSE LET corr == CHOOSE c \in block_to_out : TRUE
                links == {<<mol_idx, corr[block_idx], mol_to_block[mol_idx][block_idx]>> :
                             <<mol_idx, block_idx>> \in
                                 {p \in (DOMAIN mol_to_block) \X mapped_block_idxs :
                                     p[2] \in DOMAIN mol_to_block[p[1]]}}
                zeros == {<<mol_idx, corr[block_idx], 0>> :
                             <<mol_idx, block_idx>> \in (DOMAIN mol_to_block) \X spawned}
                flip(ts) == {<<t[2], t[1], t[3]>> : t \in ts}
            IN res(merged.mol,
                   SetItems2(SetItems2(mol_to_out, links), zeros),
                   SetItems2(SetItems2(out_to_mol, flip(links)), flip(zeros)),
                   "none",
                   {corr[block_idx] : block_idx \in spawned})

\* the loop of apply_mod_mapping over the nodes of the modification, up to
\* the i-th: the output graph, mod_to_out, and what was raised
RECURSIVE ModNodes(_, _, _, _, _)
ModNodes(modification, mod_to_mol, graph_out, mol_to_out, i) ==
    IF i = 0
    THEN [graph_out |-> graph_out, mod_to_out |-> EmptyDict, raised |-> "none"]
    ELSE LET before == ModNodes(modification, mod_to_mol, graph_out, mol_to_out, i - 1)
             g == before.graph_out
             mod_idx == modification.nodes[i]
             node == modification.attr[mod_idx]
             fail(exc) == [before EXCEPT !.raised = exc]
         IN IF before.raised # "none" THEN before
            ELSE IF Get(node, "PTM_atom", FALSE)
            THEN LET out_idx == IF Len(g.nodes) = 0 THEN 0 ELSE SetMax(NodeSet(g)) + 1
                 IN [graph_out |-> add_node(g, out_idx, node),
                     mod_to_out |-> Update(before.mod_to_out, [k \in {mod_idx} |-> out_idx]),
                     raised |-> "none"]
            ELSE IF mod_idx \notin DOMAIN mod_to_mol THEN fail("KeyError")
            ELSE LET out_idxs == UNION {DOMAIN Get(mol_to_out, mol_idx, EmptyDict) :
                                           mol_idx \in DOMAIN mod_to_mol[mod_idx]}
                     \* the out_idx at which the loop of 242-245 stops: on a
                     \* break, or on the KeyError of a node without atomname
                     stops == {o \in out_idxs :
                                  \/ "atomname" \notin DOMAIN g.attr[o]
                                  \/ g.attr[o].atomname = node.atomname}
                 IN IF out_idxs = {} THEN fail("ValueError")
                    ELSE IF "atomname" \notin DOMAIN node THEN fail("KeyError")
                    ELSE IF stops = {} THEN fail("ValueError")
                    ELSE IF "atomname" \notin DOMAIN g.attr[SetMin(stops)]
                    THEN fail("KeyError")
                    ELSE [before EXCEPT
                             !.mod_to_out = Update(@, [k \in {mod_idx} |-> SetMin(stops)])]

\* apply_mod_mapping.  applied_interactions is a plain dict that is indexed
\* by a key it does not hold as soon as the modification has an interaction:
\* KeyError.
apply_mod_mapping(match_, graph_out, mol_to_out, out_to_mol) ==
    LET mol_to_mod == match_[1]
        modification == match_[2]
        mod_to_mol ==
            [mod_idx \in Mapped(mol_to_mod) |->
                [mol_idx \in {m \in DOMAIN mol_to_mod : mod_idx \in DOMAIN mol_to_mod[m]} |->
                    mol_to_mod[mol_idx][mod_idx]]]
        nodes == ModNodes(modification, mod_to_mol, graph_out, mol_to_out,
                          Len(modification.nodes))
        mod_to_out == nodes.mod_to_out
        \* the weight that the loop of 252-260 leaves for a pair: that of the
        \* last mod_idx of mol_idx that stands for out_idx
        weight(mol_idx, out_idx) ==
            mol_to_mod[mol_idx][SetMax({mod_idx \in DOMAIN mol_to_mod[mol_idx] :
                                           mod_to_out[mod_idx] = out_idx})]
        links == {<<p[1], mod_to_out[p[2]], weight(p[1], mod_to_out[p[2]])>> :
                     p \in {q \in (DOMAIN mol_to_mod) \X Mapped(mol_to_mod) :
                                q[2] \in DOMAIN mol_to_mod[q[1]]}}
        flip(ts) == {<<t[2], t[1], t[3]>> : t \in ts}
        res(m2o, o2m, raised) ==
            [graph_out |-> nodes.graph_out, mol_to_out |-> m2o, out_to_mol |-> o2m,
             raised |-> raised, applied_interactions |-> EmptyDict]
    IN IF nodes.raised # "none"
       THEN res(mol_to_out, out_to_mol, nodes.raised)
       ELSE IF Mapped(mol_to_mod) \ DOMAIN mod_to_out # {}
       THEN res(mol_to_out, out_to_mol, "KeyError")
       ELSE IF \E t \in DOMAIN modification.interactions :
                  modification.interactions[t] # <<>>
       THEN res(SetItems2(mol_to_out, links), SetItems2(out_to_mol, flip(links)),
                "KeyError")
       ELSE res(SetItems2(mol_to_out, links), SetItems2(out_to_mol, flip(links)),
                "none")

\* sorted(list, key=..., reverse=True), keys[i] being the key of list[i]:
\* by decreasing key, elements of equal key in their order in the list
sorted_reverse(list, keys) ==
    LET rank(i) == 1 + Cardinality({j \in 1..Len(list) :
                                       \/ keys[j] > keys[i]
                                       \/ keys[j] = keys[i] /\ j < i})
    IN [r \in 1..Len(list) |-> list[CHOOSE i \in 1..Len(list) : rank(i) = r]]

\* the nodes that paths of edges within nodes join to the nodes of `from`
RECURSIVE Reach(_, _, _)
Reach(from, nodes, edges) ==
    LET more == {n \in nodes : \E f \in from : {f, n} \in edges}
    IN IF more \subseteq from THEN from ELSE Reach(from \cup more, nodes, edges)

\* nx.connected_components of the subgraph of the graph on nodes
connected_components(nodes, edges) == {Reach({n}, nodes, edges) : n \in nodes}

\* get_mod_mappings: the modification mappings by their names; of two
\* mappings of the same names, the later one stays
get_mod_mappings(mappings) ==
    LET mods == {i \in 1..Len(mappings) : mappings[i].type = "modification"}
    IN [names \in {mappings[i].names : i \in mods} |->
           mappings[SetMax({i \in mods : mappings[i].names = names})]]

\* the keys of known_mod_mappings in the order of the dict: that of the
\* first mapping of each names
ModNames(mappings) ==
    LET mods == {i \in 1..Len(mappings) : mappings[i].type = "modification"}
        firsts == {i \in mods : \A j \in mods : j < i => mappings[j].names # mappings[i].names}
    IN [k \in 1..Cardinality(firsts) |->
           mappings[CHOOSE i \in firsts : Cardinality({j \in firsts : j <= i}) = k].names]

\* the loop of 150-157 over the matches that mod_mapping.map yields, from
\* the i-th on: the matches kept, the modified nodes left, the warnings
RECURSIVE KeepMatches(_, _, _, _)
KeepMatches(found, i, modified_nodes, acc) ==
    IF i > Len(found) THEN [matches |-> acc.matches, log |-> acc.log,
                            modified_nodes |-> modified_nodes]
    ELSE LET touched == DOMAIN found[i][1]
         IN IF modified_nodes \cap touched = {}
            THEN KeepMatches(found, i + 1, modified_nodes, acc)
            ELSE KeepMatches(found, i + 1, modified_nodes \ touched,
                             [matches |-> Append(acc.matches, found[i]),
                              log |-> IF touched \subseteq modified_nodes
                                      THEN acc.log
                                      ELSE Append(acc.log, "overlapping-modification")])

\* the loop of 144-157 over the names needed, from the i-th on
RECURSIVE NeededMatches(_, _, _, _, _)
NeededMatches(known_mod_mappings, needed, i, modified_nodes, acc) ==
    IF i > Len(needed) THEN acc
    ELSE LET kept == KeepMatches(known_mod_mappings[needed[i]].mod_matches, 1,
                                 modified_nodes, acc)
         IN NeededMatches(known_mod_mappings, needed, i + 1, kept.modified_nodes,
                          [matches |-> kept.matches, log |-> kept.log])

\* modification_matches: what it raised, the matches it returns, and the
\* warnings it logged.  The modifications of a node are given by their
\* names.  The sets found_ptm_groups and needed_mod_mappings are gone
\* through in the order of the options.
modification_matches(molecule, mappings) ==
    LET mods(idx) == Get(molecule.attr[idx], "modifications", <<>>)
        modified_nodes == {idx \in NodeSet(molecule) : mods(idx) # <<>>}
        grouped == connected_components(modified_nodes, molecule.edges)
        modifications(group) == {mods(mol_idx) : mol_idx \in group}
        found_ptm_groups == UNION {modifications(group) : group \in grouped}
        known_mod_mappings == get_mod_mappings(mappings)
        names == ModNames(mappings)
        options == sorted_reverse(names, [i \in 1..Len(names) |-> Len(names[i])])
        covered_by(group) == cover(group, options)
        uncovered == {group \in found_ptm_groups :
                         covered_by(group).raised = "none" /\ covered_by(group).ret = {}}
        needed_mod_mappings ==
            UNION {Range(CHOOSE c \in covered_by(group).ret : TRUE) :
                      group \in found_ptm_groups \ uncovered}
        needed == SelectSeq(options, LAMBDA o : o \in needed_mod_mappings)
        warned == [i \in 1..Cardinality(uncovered) |-> "cannot-cover"]
    IN IF \E group \in grouped : Cardinality(modifications(group)) # 1
       THEN [raised |-> "AssertionError", matches |-> <<>>, log |-> <<>>]
       ELSE IF \E group \in found_ptm_groups : covered_by(group).raised # "none"
       THEN [raised |-> (CHOOSE r \in {covered_by(group).raised : group \in found_ptm_groups} :
                            r # "none"),
             matches |-> <<>>, log |-> <<>>]
       ELSE LET kept == NeededMatches(known_mod_mappings, needed, 1, modified_nodes,
                                      [matches |-> <<>>, log |-> warned])
            IN [raised |-> "none", matches |-> kept.matches, log |-> kept.log]

\* attrs_from_node: {} when it raises.  dict.update returns None, so with a
\* 'replace' in the node, node is None and node.items() raises
\* AttributeError.
attrs_from_node(node, attrs_keep) ==
    IF "replace" \in DOMAIN node
    THEN {}
    ELSE {[attr \in DOMAIN node \cap Range(attrs_keep) |-> node[attr]]}

\* the keys of the dicts of a dict of dicts in the order in which they came
\* in: those of `order`, then the new ones, which one match brings in the
\* order of its correspondence, by increasing particle id
KeyOrder(order, d) ==
    [k \in DOMAIN d |->
        LET old == Get(order, k, <<>>)
            new == DOMAIN d[k] \ Range(old)
        IN old \o [i \in 1..Cardinality(new) |->
                      CHOOSE m \in new : Cardinality({x \in new : x <= m}) = i]]

\* the lowest particle id that a match touches: min(x[0].keys())
MinKey(match_) == SetMin(DOMAIN match_[1])

\* the call do_mapping(molecule, mappings, to_ff, attribute_keep) before
\* its first line has run
NewRun(molecule, mappings, to_ff, attribute_keep) ==
    [pc |-> "start",
     raised |-> "none",
     molecule |-> molecule,
     mappings |-> mappings,
     to_ff |-> to_ff,
     attribute_keep |-> attribute_keep,
     graph_out |-> Molecule(to_ff),
     block_matches |-> <<>>,
     mod_matches |-> <<>>,
     mol_to_out |-> EmptyDict,
     out_to_mol |-> EmptyDict,
     out_order |-> EmptyDict,
     overlapping_mappings |-> {},
     none_to_one_mappings |-> {},
     all_matches |-> <<>>,
     all_references |-> EmptyDict,
     to_remove |-> {},
     uncovered_atoms |-> {},
     log |-> <<>>]

\* the stack that sorted(matches, key=lambda x: min(x[0].keys()),
\* reverse=True) makes
MatchStack(matches) ==
    sorted_reverse(matches, [i \in 1..Len(matches) |-> MinKey(matches[i])])

\* block_matches as lines 315-318 collect them: the matches of every
\* mapping of the collection, whatever its type
BlockMatches(mappings) ==
    LET RECURSIVE extend(_)
        extend(i) == IF i = 0 THEN <<>> ELSE extend(i - 1) \o mappings[i].block_matches
    IN extend(Len(mappings))

\* lines 311-324 of do_mapping: the output molecule, the matches of every
\* mapping, those of modification_matches, and the two stacks
StartMapping(run) ==
    LET found == modification_matches(run.molecule, run.mappings)
    IN IF found.raised # "none"
       THEN [run EXCEPT !.pc = "raised", !.raised = found.raised, !.log = found.log]
       ELSE [run EXCEPT
                !.pc = "merge",
                !.attribute_keep = <<"chain">> \o @,
                !.block_matches = MatchStack(BlockMatches(run.mappings)),
                !.mod_matches = MatchStack(found.matches),
                !.log = found.log]

\* the test of 348-350 taking the modification also when the two tops have
\* the same lowest particle id
TakesModification_on_ties(run) ==
    IF Len(run.block_matches) = 0 THEN TRUE
    ELSE IF Len(run.mod_matches) = 0 THEN FALSE
    ELSE MinKey(run.mod_matches[Len(run.mod_matches)])
             <= MinKey(run.block_matches[Len(run.block_matches)])

\* the test of 348-350: the next match is the top of mod_matches
TakesModification(run) ==
    IF Len(run.block_matches) = 0 THEN TRUE
    ELSE IF Len(run.mod_matches) = 0 THEN FALSE
    ELSE MinKey(run.mod_matches[Len(run.mod_matches)])
             < MinKey(run.block_matches[Len(run.block_matches)])

\* the iteration keeping out_to_mol as it was
AfterApply_without_out_to_mol(run, match_, res) ==
    [run EXCEPT
        !.pc = IF res.raised = "none" THEN "merge" ELSE "raised",
        !.raised = res.raised,
        !.graph_out = res.graph_out,
        !.mol_to_out = res.mol_to_out,
        !.all_matches = IF res.raised = "none" THEN Append(@, match_) ELSE @,
        !.all_references = IF res.raised = "none" THEN Update(@, match_[3]) ELSE @]

\* what the iteration leaves when the apply step has run
AfterApply(run, match_, res) ==
    [run EXCEPT
        !.pc = IF res.raised = "none" THEN "merge" ELSE "raised",
        !.raised = res.raised,
        !.graph_out = res.graph_out,
        !.mol_to_out = res.mol_to_out,
        !.out_to_mol = res.out_to_mol,
        !.out_order = KeyOrder(@, res.out_to_mol),
        !.all_matches = IF res.raised = "none" THEN Append(@, match_) ELSE @,
        !.all_references = IF res.raised = "none" THEN Update(@, match_[3]) ELSE @]

\* lines 351-355, 363-364
ModificationIteration(run) ==
    LET match_ == run.mod_matches[Len(run.mod_matches)]
        popped == [run EXCEPT !.mod_matches = SubSeq(@, 1, Len(@) - 1)]
    IN AfterApply(popped, match_,
                  apply_mod_mapping(match_, run.graph_out, run.mol_to_out, run.out_to_mol))

\* lines 357-364
BlockIteration(run) ==
    LET match_ == run.block_matches[Len(run.block_matches)]
        popped == [run EXCEPT !.block_matches = SubSeq(@, 1, Len(@) - 1)]
        res == apply_block_mapping(match_, run.graph_out, run.mol_to_out, run.out_to_mol)
        after == AfterApply(popped, match_, res)
    IN IF res.raised = "none"
       THEN [after EXCEPT !.overlapping_mappings = @ \cup res.overlap,
                          !.none_to_one_mappings = @ \cup res.none_to_one]
       ELSE [after EXCEPT !.log = IF res.raised = "ValueError"
                                  THEN Append(@, "inconsistent-data") ELSE @]

\* utils.are_all_equal(vals): every value of the list equals the first
are_all_equal(vals) == \A i \in DOMAIN vals : vals[i] = vals[1]

\* graph_out[out_idx]: the adjacency of the node, a dict whose keys are the
\* neighbours of out_idx (nx.Graph.__getitem__), not its attributes
GraphGetItem(graph, idx) ==
    [n \in {k \in NodeSet(graph) : \E e \in graph.edges : e = {idx, k}} |-> EmptyDict]

\* graph_out[out_idx].get('atomname', ''): node keys are integers, so the
\* string is a key of no adjacency
AdjacencyAtomname(graph, idx) ==
    LET adj == GraphGetItem(graph, idx)
        named == {n \in DOMAIN adj : n \notin Int}
    IN IF named = {} THEN "" ELSE adj[CHOOSE n \in named : TRUE]

\* one pass of the loop of 372-404, for out_idx: the run with the node's
\* attributes set, or raised
SetNodeAttributes(run, out_idx) ==
    LET molecule == run.molecule
        mol_idxs == run.out_order[out_idx]
        tracked == [graph |-> Range(mol_idxs),
                    mapping_weights |-> run.out_to_mol[out_idx]]
        with_graph == [run EXCEPT !.graph_out = add_node(@, out_idx, tracked)]
        fail(exc) == [with_graph EXCEPT !.pc = "raised", !.raised = exc]
        queue(r) ==
            IF AdjacencyAtomname(r.graph_out, out_idx) = "None"
            THEN [r EXCEPT !.to_remove = @ \cup {out_idx}]
            ELSE r
    IN IF out_idx \notin NodeSet(run.graph_out)
       THEN [run EXCEPT !.pc = "raised", !.raised = "KeyError"]
       ELSE IF out_idx \in DOMAIN run.all_references
       THEN LET ref_idx == run.all_references[out_idx]
                new_attrs == IF ref_idx \in NodeSet(molecule)
                             THEN attrs_from_node(molecule.attr[ref_idx], run.attribute_keep)
                             ELSE {}
            IN IF ref_idx \notin NodeSet(molecule) THEN fail("KeyError")
               ELSE IF new_attrs = {} THEN fail("AttributeError")
               ELSE queue([with_graph EXCEPT !.graph_out =
                              add_node(@, out_idx, CHOOSE d \in new_attrs : TRUE)])
       ELSE LET kept(i) == attrs_from_node(molecule.attr[mol_idxs[i]], run.attribute_keep)
                has(attr) == {i \in DOMAIN mol_idxs : attr \in DOMAIN (CHOOSE d \in kept(i) : TRUE)}
                vals(attr) ==
                    LET idxs == SelectSeqIdx(mol_idxs, has(attr))
                    IN [i \in DOMAIN idxs |->
                           molecule.attr[idxs[i]][attr]]
                attrs == {attr \in Range(run.attribute_keep) : has(attr) # {}}
                garbage == {attr \in attrs : ~are_all_equal(vals(attr))}
            IN IF \E i \in DOMAIN mol_idxs : mol_idxs[i] \notin NodeSet(molecule)
               THEN fail("KeyError")
               ELSE IF \E i \in DOMAIN mol_idxs : kept(i) = {}
               THEN fail("AttributeError")
               ELSE queue([with_graph EXCEPT
                              !.graph_out = add_node(@, out_idx,
                                                     [attr \in attrs |-> vals(attr)[1]]),
                              !.log = @ \o [i \in 1..Cardinality(garbage) |->
                                               "inconsistent-data"]])

\* lines 371-404: the loop over out_to_mol, which stops at the first raise
RECURSIVE SetAttributesLoop(_, _)
SetAttributesLoop(run, todo) ==
    IF todo = {} \/ run.pc = "raised"
    THEN run
    ELSE LET out_idx == SetMin(todo)
         IN SetAttributesLoop(SetNodeAttributes(run, out_idx), todo \ {out_idx})

SetAttributes(run) ==
    LET after == SetAttributesLoop(run, DOMAIN run.out_to_mol)
    IN IF after.pc = "raised" THEN after ELSE [after EXCEPT !.pc = "edges"]

\* Molecule.edges_between(n_bunch1, n_bunch2): the pairs of a node of the
\* first bunch and a node of the second that the molecule has an edge
\* between
edges_between(molecule, n_bunch1, n_bunch2) ==
    {p \in n_bunch1 \X n_bunch2 : {p[1], p[2]} \in molecule.edges}

\* the edges of one pair of matches without the test of line 420
EdgesOfPair_with_self_loops(run, match1, match2) ==
    LET edges == edges_between(run.molecule, DOMAIN match1[1], DOMAIN match2[1])
        out_idxs(mol_idx) ==
            DOMAIN Get(run.mol_to_out, mol_idx, EmptyDict) \ run.none_to_one_mappings
    IN UNION {out_idxs(e[1]) \X out_idxs(e[2]) : e \in edges}

\* the output edges that lines 414-421 add for the source edges of one pair
\* of matches
EdgesOfPair(run, match1, match2) ==
    LET edges == edges_between(run.molecule, DOMAIN match1[1], DOMAIN match2[1])
        out_idxs(mol_idx) ==
            DOMAIN Get(run.mol_to_out, mol_idx, EmptyDict) \ run.none_to_one_mappings
    IN {<<out_idx, out_jdx>> \in
            UNION {out_idxs(e[1]) \X out_idxs(e[2]) : e \in edges} :
                out_idx # out_jdx}

RECURSIVE AddEdges(_, _)
AddEdges(graph, pairs) ==
    IF pairs = {} THEN graph
    ELSE LET e == CHOOSE x \in pairs : TRUE
         IN AddEdges(add_edge(graph, e[1], e[2]), pairs \ {e})

\* lines 409-421: combinations(all_matches, 2); reading mol_to_out, a
\* defaultdict, at a particle it does not hold makes an empty entry
SynthesizeEdges(run) ==
    LET n == Len(run.all_matches)
        combinations == {c \in (1..n) \X (1..n) : c[1] < c[2]}
        touched == UNION {{e[1], e[2]} :
                             e \in UNION {edges_between(run.molecule,
                                                        DOMAIN run.all_matches[c[1]][1],
                                                        DOMAIN run.all_matches[c[2]][1]) :
                                             c \in combinations}}
        new_edges == UNION {EdgesOfPair(run, run.all_matches[c[1]], run.all_matches[c[2]]) :
                               c \in combinations}
    IN [run EXCEPT
           !.pc = "checks",
           !.graph_out = AddEdges(@, new_edges),
           !.mol_to_out = Update([k \in touched \ DOMAIN @ |-> EmptyDict], @)]

\* nx.is_connected(graph.subgraph(nodes))
is_connected(graph, nodes) ==
    Cardinality(connected_components(nodes, {e \in graph.edges : e \subseteq nodes})) = 1

\* lines 425-484: the diagnostics, the removal of the queued particles and
\* the return.  modified_interactions is empty here, since a modification
\* with an interaction does not get through apply_mod_mapping.
SanityChecks(run) ==
    LET molecule == run.molecule
        out_idxs(mol_idx) == DOMAIN run.mol_to_out[mol_idx] \ run.none_to_one_mappings
        disconnected == {mol_idx \in DOMAIN run.mol_to_out :
                            /\ Cardinality(out_idxs(mol_idx)) > 1
                            /\ ~is_connected(run.graph_out, out_idxs(mol_idx))}
        uncovered_atoms == NodeSet(molecule) \ DOMAIN run.mol_to_out
        uncovered_hydrogens == {idx \in uncovered_atoms :
                                   Get(molecule.attr[idx], "element", "") = "H"}
        other_uncovered == uncovered_atoms \ uncovered_hydrogens
        entries(cond, type) == IF cond THEN <<type>> ELSE <<>>
    IN [run EXCEPT
           !.pc = "done",
           !.uncovered_atoms = uncovered_atoms,
           !.log = @ \o entries(run.overlapping_mappings # {}, "inconsistent-data")
                     \o [i \in 1..Cardinality(disconnected) |-> "inconsistent-data"]
                     \o entries(uncovered_hydrogens # {}, "unmapped-atom")
                     \o entries(other_uncovered # {}, "unmapped-atom"),
           !.graph_out = remove_nodes_from(@, run.to_remove)]

(***************************************************************************)
(* The inputs of do_mapping.  The source molecule is the chain 1-2-3-4.    *)
(* Mapping.map is not part of these sources: what it yields for the        *)
(* source molecule is given with each mapping, block_matches under         *)
(* _old_atomname_match and mod_matches under ptm_resname_match.            *)
(***************************************************************************)
SourceIds == 1..4

\* the 'modifications' of the particles 3 and 4 of the source
ModPatterns ==
    {EmptyDict,
     [i \in {3, 4} |-> <<"a">>],
     [i \in {3, 4} |-> <<"a", "b">>],
     [i \in {3, 4} |-> IF i = 3 THEN <<"a", "b">> ELSE <<"b", "a">>],
     [i \in {3, 4} |-> IF i = 3 THEN <<"a">> ELSE <<"b">>],
     [i \in {4} |-> <<"c">>]}

Chains == {"A", "B"}

Specials == {"plain", "replace", "noname"}

SourceNode(i, mods, chain4, special) ==
    LET base == [atomname |-> IF i = 3 /\ special = "noname"
                              THEN "None"
                              ELSE <<"N1", "C2", "C3", "O4">>[i],
                 resid |-> IF i <= 2 THEN 1 ELSE 2,
                 chain |-> IF i = 4 THEN chain4 ELSE "A",
                 element |-> IF i = 1 THEN "H" ELSE "C"]
        modified == IF i \in DOMAIN mods
                    THEN Update(base, [modifications |-> mods[i]])
                    ELSE base
    IN IF i = 3 /\ special = "replace"
       THEN Update(modified, [replace |-> [atomname |-> "X3"]])
       ELSE modified

Source(mods, chain4, special) ==
    MkMol(<<1, 2, 3, 4>>,
          [i \in SourceIds |-> SourceNode(i, mods, chain4, special)],
          {{1, 2}, {2, 3}, {3, 4}},
          <<>>, <<>>, "1", "ff0")

Sources ==
    {Source(mods, chain4, special) :
        mods \in ModPatterns, chain4 \in Chains, special \in Specials}

\* the 3-particle linear template A-B-C
LinearBlock(nrexcl) ==
    MkMol(<<0, 1, 2>>,
          [i \in 0..2 |-> [atomname |-> <<"A", "B", "C">>[i + 1], resid |-> 1]],
          {{0, 1}, {1, 2}},
          <<Interaction(<<0, 1>>, "p1", EmptyDict)>>, <<>>, nrexcl, "ff1")

\* a template of two particles, one of which no source particle maps to
DummyBlock(nrexcl) ==
    MkMol(<<0, 1>>,
          [i \in 0..1 |-> [atomname |-> <<"D", "V">>[i + 1], resid |-> 1]],
          {{0, 1}}, <<>>, <<>>, nrexcl, "ff1")

\* a modification template: its particles by atomname, those that are new
\* to the output (PTM_atom), and its bonds
ModTemplate(atomnames, ptm, bonds) ==
    MkMol([i \in 1..Len(atomnames) |-> i - 1],
          [i \in 0..(Len(atomnames) - 1) |->
              [atomname |-> atomnames[i + 1], PTM_atom |-> (i \in ptm)]],
          {}, bonds, <<>>, "None", "ff1")

\* a correspondence that maps the particles of `from`, in this order, to
\* the template particles 0, 1, ... with weight 1
OneToOne(from) ==
    [mol_idx \in Range(from) |->
        [k \in {IndexOf(from, mol_idx) - 1} |-> 1]]

\* a correspondence that maps every particle of `from` to the template
\* particle 0 with weight 1
ManyToOne(from) == [mol_idx \in from |-> [k \in {0} |-> 1]]

Mapping(type, names, block_matches, mod_matches) ==
    [type |-> type, names |-> names,
     block_matches |-> block_matches, mod_matches |-> mod_matches]

ModMapping(names, matches, as_block) ==
    Mapping("modification", names, IF as_block THEN matches ELSE <<>>, matches)

MappingPool ==
    LET P == ModTemplate(<<"P">>, {0}, <<>>)
    IN {Mapping("block", <<"LIN">>,
                << <<OneToOne(<<1, 2, 3>>), LinearBlock("1"), EmptyDict>>,
                   <<OneToOne(<<2, 3, 4>>), LinearBlock("1"), EmptyDict>> >>, <<>>),
        Mapping("block", <<"LIN2">>,
                << <<OneToOne(<<3, 4>>), LinearBlock("2"), EmptyDict>> >>, <<>>),
        Mapping("block", <<"DUM">>,
                << <<ManyToOne({1, 2}), DummyBlock("1"), EmptyDict>> >>, <<>>),
        ModMapping(<<"a">>, << <<ManyToOne({3, 4}), P, EmptyDict>> >>, FALSE),
        ModMapping(<<"a">>, << <<ManyToOne({3, 4}), P, EmptyDict>> >>, TRUE),
        ModMapping(<<"a">>, << <<ManyToOne({3, 4}), P, [o \in {0} |-> 3]>> >>, FALSE),
        ModMapping(<<"a">>, << <<ManyToOne({2, 3}), P, EmptyDict>> >>, FALSE),
        ModMapping(<<"a">>,
                   << <<ManyToOne({3, 4}),
                        ModTemplate(<<"None">>, {0}, <<>>), EmptyDict>> >>, FALSE),
        ModMapping(<<"a">>,
                   << <<OneToOne(<<3, 4>>),
                        ModTemplate(<<"P", "Q">>, {0, 1},
                                    <<Interaction(<<0, 1>>, "p1", EmptyDict)>>),
                        EmptyDict>> >>, FALSE),
        ModMapping(<<"b">>,
                   << <<OneToOne(<<3, 4>>),
                        ModTemplate(<<"P", "Q">>, {1}, <<>>), EmptyDict>> >>, FALSE),
        ModMapping(<<"b">>,
                   << <<OneToOne(<<3, 4>>),
                        ModTemplate(<<"Z", "Q">>, {1}, <<>>), EmptyDict>> >>, FALSE),
        ModMapping(<<"b">>,
                   << <<[mol_idx \in {3, 4} |->
                            IF mol_idx = 3 THEN [k \in {0, 1} |-> k + 1]
                            ELSE [k \in {2} |-> 1]],
                        ModTemplate(<<"P", "P", "Q">>, {2}, <<>>), EmptyDict>> >>, FALSE),
        ModMapping(<<"b">>, << <<ManyToOne({4}), ModTemplate(<<"Q">>, {0}, <<>>),
                                 EmptyDict>> >>, FALSE),
        ModMapping(<<"a", "b">>, << <<ManyToOne({3, 4}), P, EmptyDict>> >>, FALSE)}

\* the collections of mappings: one mapping or two
MappingCollections ==
    {<<m>> : m \in MappingPool}
        \cup {<<p[1], p[2]>> : p \in {q \in MappingPool \X MappingPool : q[1] # q[2]}}

AttributeKeeps == {<<>>, <<"atomname">>}

DoMappingInit ==
    /\ mol = Molecule("ff1")
    /\ last = Idle
    /\ block = NoBlock
    /\ match = NoMatch
    /\ cov = NoCover
    /\ dm \in {NewRun(molecule, mappings, "ff1", attribute_keep) :
                  molecule \in Sources, mappings \in MappingCollections,
                  attribute_keep \in AttributeKeeps}
    /\ system = NoSystem
    /\ rs = NoCall

\* lines 311-324
MatchAndSort ==
    /\ dm.pc = "start"
    /\ dm' = StartMapping(dm)
    /\ UNCHANGED <<mol, last, block, match, cov, system, rs>>

\* one iteration of the loop of 345-364 that takes a modification match
ApplyModMatch ==
    /\ dm.pc = "merge"
    /\ Len(dm.block_matches) + Len(dm.mod_matches) > 0
    /\ TakesModification(dm)
    /\ dm' = ModificationIteration(dm)
    /\ UNCHANGED <<mol, last, block, match, cov, system, rs>>

\* one iteration of the loop of 345-364 that takes a block match
ApplyBlockMatch ==
    /\ dm.pc = "merge"
    /\ Len(dm.block_matches) + Len(dm.mod_matches) > 0
    /\ ~TakesModification(dm)
    /\ dm' = BlockIteration(dm)
    /\ UNCHANGED <<mol, last, block, match, cov, system, rs>>

\* lines 371-404, once the loop is left
ReconcileAttributes ==
    /\ dm.pc = "merge"
    /\ Len(dm.block_matches) = 0 /\ Len(dm.mod_matches) = 0
    /\ dm' = SetAttributes(dm)
    /\ UNCHANGED <<mol, last, block, match, cov, system, rs>>

\* lines 409-421
AddEdgesBetweenMatches ==
    /\ dm.pc = "edges"
    /\ dm' = SynthesizeEdges(dm)
    /\ UNCHANGED <<mol, last, block, match, cov, system, rs>>

\* lines 425-484
CheckAndReturn ==
    /\ dm.pc = "checks"
    /\ dm' = SanityChecks(dm)
    /\ UNCHANGED <<mol, last, block, match, cov, system, rs>>

DoMappingNext ==
    \/ MatchAndSort
    \/ ApplyModMatch
    \/ ApplyBlockMatch
    \/ ReconcileAttributes
    \/ AddEdgesBetweenMatches
    \/ CheckAndReturn

DoMappingSpec == DoMappingInit /\ [][DoMappingNext]_vars

(***************************************************************************)
(* Claims about do_mapping.                                                *)
(***************************************************************************)
\* the matches that the merge loop starts from: both stacks of line 323-324
MatchesToApply(run) ==
    LET found == modification_matches(run.molecule, run.mappings)
    IN IF found.raised # "none" THEN <<>>
       ELSE BlockMatches(run.mappings) \o found.matches

\* the merge loop of 345-364 is over: left or raised out of
LoopOver(run) == run.pc \in {"edges", "checks", "done", "raised"}

NonDecreasing(keys) == \A i, j \in DOMAIN keys : i < j => keys[i] <= keys[j]

TimesIn(list, x) == Cardinality({i \in DOMAIN list : list[i] = x})

\* C12: once the merge loop of do_mapping is over, and unless the call was
\* stopped by a ValueError (an incompatible nrexcl, a modification atom name
\* that no output particle has), every block match and every modification
\* match has been applied exactly once, and the matches were applied by
\* non-decreasing lowest source-particle id.
C12_EveryMatchAppliedInOrder ==
    (LoopOver(dm) /\ dm.raised # "ValueError") =>
        /\ \A i \in DOMAIN MatchesToApply(dm) :
               TimesIn(dm.all_matches, MatchesToApply(dm)[i])
                   = TimesIn(MatchesToApply(dm), MatchesToApply(dm)[i])
        /\ Len(dm.all_matches) = Len(MatchesToApply(dm))
        /\ NonDecreasing([i \in DOMAIN dm.all_matches |-> MinKey(dm.all_matches[i])])

\* the part of C12 that the loop does keep: what was applied was applied in
\* order
AppliedInOrder ==
    NonDecreasing([i \in DOMAIN dm.all_matches |-> MinKey(dm.all_matches[i])])

\* the matching of 315-319 raised nothing
Matched(run) == modification_matches(run.molecule, run.mappings).raised = "none"

\* the collection holds block mappings only
BlockOnly(run) == \A i \in DOMAIN run.mappings : run.mappings[i].type = "block"

\* the block matches in the order in which the loop pops them
BlocksInOrder(run) ==
    LET stack == MatchStack(BlockMatches(run.mappings))
    IN [i \in 1..Len(stack) |-> stack[Len(stack) + 1 - i]]

FirstBlockSetsNrexcl ==
    (LoopOver(dm) /\ Matched(dm) /\ BlockOnly(dm)) =>
        dm.graph_out.nrexcl = BlocksInOrder(dm)[1][2].nrexcl

\* C14: do_mapping returns, or raises the ValueError of a fatal condition
\* (a block of incompatible nrexcl, a modification atom name that no output
\* particle has); the assertion of modification_matches on inconsistent
\* groups is left aside here.
C14_ReturnsOrRaisesFatalCondition ==
    dm.pc = "raised" => dm.raised \in {"ValueError", "AssertionError"}

(***************************************************************************)
(* The matching callbacks of do_mapping.  node1 is the dict of a source    *)
(* particle, node2 the dict of a template particle, which the callback is  *)
(* handed by reference: each callback gives its result and the two dicts   *)
(* as the call leaves them.                                                *)
(***************************************************************************)
Del(d, k) == [j \in DOMAIN d \ {k} |-> d[j]]

\* `not value` for a value of a template dict: a LinkPredicate object is
\* true, a plain value is false when it is None, '' or False
Falsy(value) == value.kind = "literal" /\ value.value \in {"None", "", "False"}

CallbackResult(raised, result, node1, node2) ==
    [raised |-> raised, result |-> result, node1 |-> node1, node2 |-> node2]

node_matcher(node1, node2) ==
    CallbackResult("none",
                   attributes_match(node1, node2,
                                    {"atype", "charge", "charge_group",
                                     "resid", "replace", "_old_atomname"}),
                   node1, node2)

\* the renaming is done on copies of the two dicts
_old_atomname_match(node1, node2) ==
    IF "atomname" \notin DOMAIN node1 \/ "atomname" \notin DOMAIN node2
    THEN CallbackResult("KeyError", FALSE, node1, node2)
    ELSE LET name1 == Get(node1, "_old_atomname", node1["atomname"])
             name2 == Get(node2, "_old_atomname", node2["atomname"])
             copy1 == Del(Update(node1, [_name |-> name1]), "atomname")
             copy2 == Del(Update(node2, [_name |-> name2]), "atomname")
         IN CallbackResult("none", node_matcher(copy1, copy2).result, node1, node2)

\* node2 is copied only when its resname is deleted; 'PTM_atom' is deleted
\* from whatever node2 then names
ptm_resname_match(node1, node2) ==
    LET copied == "resname" \in DOMAIN node2 /\ Falsy(node2["resname"])
        without_resname == IF copied THEN Del(node2, "resname") ELSE node2
        deletes == "PTM_atom" \in DOMAIN without_resname
                       /\ Falsy(without_resname["PTM_atom"])
        local == IF deletes THEN Del(without_resname, "PTM_atom") ELSE without_resname
    IN CallbackResult("none", node_matcher(node1, local).result, node1,
                      IF copied THEN node2 ELSE local)

CallbackKeys == {"atomname", "resname", "PTM_atom"}

\* the particle dicts of the source molecule
SourceDicts ==
    {d \in Dicts(CallbackKeys, {"a", "R", "True"}) :
        /\ "atomname" \in DOMAIN d => d["atomname"] = "a"
        /\ "resname" \in DOMAIN d => d["resname"] = "R"
        /\ "PTM_atom" \in DOMAIN d => d["PTM_atom"] = "True"}

\* the particle dicts of the templates
TemplateDicts ==
    {d \in Dicts(CallbackKeys,
                 {Literal("a"), Choice({"a", "b"}), Literal(""), Literal("R"),
                  Literal("False"), Literal("True")}) :
        /\ "atomname" \in DOMAIN d => d["atomname"] \in {Literal("a"), Choice({"a", "b"})}
        /\ "resname" \in DOMAIN d => d["resname"] \in {Literal(""), Literal("R")}
        /\ "PTM_atom" \in DOMAIN d => d["PTM_atom"] \in {Literal("False"), Literal("True")}}

\* `match` holds the callback called last, its two dicts as it left them,
\* its result, and in `template` the template dict of the catalog
CallbackInit ==
    /\ match \in [op : {"none"},
                  node1 : SourceDicts,
                  node2 : TemplateDicts,
                  template : TemplateDicts,
                  result : {FALSE},
                  raised : {"none"}]
    /\ match.template = match.node2
    /\ mol = Molecule("None")
    /\ last = Idle
    /\ block = NoBlock
    /\ cov = NoCover
    /\ dm = NoRun
    /\ system = NoSystem
    /\ rs = NoCall

Callback(op, res) ==
    /\ match' = [op |-> op, node1 |-> res.node1, node2 |-> res.node2,
                 template |-> match.template,
                 result |-> res.result, raised |-> res.raised]
    /\ UNCHANGED <<mol, last, block, cov, dm, system, rs>>

CallNodeMatcher ==
    /\ match.op # "node_matcher"
    /\ Callback("node_matcher", node_matcher(match.node1, match.node2))

CallOldAtomnameMatch ==
    /\ match.op # "_old_atomname_match"
    /\ Callback("_old_atomname_match", _old_atomname_match(match.node1, match.node2))

CallPtmResnameMatch ==
    /\ match.op # "ptm_resname_match"
    /\ Callback("ptm_resname_match", ptm_resname_match(match.node1, match.node2))

CallbackNext ==
    \/ CallNodeMatcher
    \/ CallOldAtomnameMatch
    \/ CallPtmResnameMatch

CallbackSpec == CallbackInit /\ [][CallbackNext]_vars

\* C15: no matching callback changes the template it is handed: the dict
\* of the template particle is, after every call, the dict of the catalog.
C15_TemplatesUnchanged == match.node2 = match.template

\* the source particles that more than one block match of the call covers
CoveredTwice(run) ==
    LET matches == BlockMatches(run.mappings)
    IN {mol_idx \in NodeSet(run.molecule) :
           Cardinality({i \in DOMAIN matches : mol_idx \in DOMAIN matches[i][1]}) > 1}

\* C16: in a call whose matches are block matches and that no ValueError
\* stops, the overlap set is, once the loop is over, the set of the source
\* particles covered by more than one block match ({2, 3} for the template
\* A-B-C matched on (1, 2, 3) and (2, 3, 4)).
C16_OverlapIsCoveredTwice ==
    (LoopOver(dm) /\ Matched(dm) /\ BlockOnly(dm) /\ dm.raised # "ValueError") =>
        dm.overlapping_mappings = CoveredTwice(dm)

\* the source particles that carry modifications
Tagged(run) ==
    {idx \in NodeSet(run.molecule) :
        Get(run.molecule.attr[idx], "modifications", <<>>) # <<>>}

\* the source has one modified residue, and one of the names of its
\* modifications is a name of no modification mapping: no cover exists
UnknownModification(run) ==
    LET names == {run.molecule.attr[idx]["modifications"] : idx \in Tagged(run)}
        known == UNION {Range(ns) : ns \in DOMAIN get_mod_mappings(run.mappings)}
    IN /\ Cardinality(names) = 1
       /\ \E ns \in names : Range(ns) \ known # {}

\* the source particles that the block matches of the call touch
BlockMapped(run) ==
    UNION {DOMAIN BlockMatches(run.mappings)[i][1] : i \in DOMAIN BlockMatches(run.mappings)}

\* C17: when the modification of the one modified residue has no cover,
\* one cannot-cover warning is logged and no modification match is made;
\* do_mapping raises nothing but the ValueError of a fatal condition, and
\* when it returns, the tagged particles are in the uncovered set and the
\* particles of the block matches are mapped.
C17_UncoveredModificationFallsThrough ==
    (dm.pc # "start" /\ UnknownModification(dm)) =>
        /\ TimesIn(dm.log, "cannot-cover") = 1
        /\ modification_matches(dm.molecule, dm.mappings).matches = <<>>
        /\ dm.pc = "raised" => dm.raised = "ValueError"
        /\ dm.pc = "done" =>
               /\ Tagged(dm) \subseteq dm.uncovered_atoms
               /\ BlockMapped(dm) \subseteq DOMAIN dm.mol_to_out

\* the part of C17 that holds, block matches or not: the warning, no
\* modification match, and the tagged particles uncovered on return
UncoveredModificationWarns ==
    (dm.pc # "start" /\ UnknownModification(dm)) =>
        /\ TimesIn(dm.log, "cannot-cover") = 1
        /\ modification_matches(dm.molecule, dm.mappings).matches = <<>>
        /\ dm.pc = "done" => Tagged(dm) \subseteq dm.uncovered_atoms

\* the output particles whose atomname is None
Unnamed(graph) ==
    {idx \in NodeSet(graph) :
        "atomname" \in DOMAIN graph.attr[idx] /\ graph.attr[idx]["atomname"] = "None"}

\* C18: the output particles left with atomname None by the attribute
\* reconciliation are queued in to_remove, and the molecule that do_mapping
\* returns has no particle with atomname None.
C18_UnnamedParticlesRemoved ==
    /\ dm.pc \in {"edges", "checks"} => Unnamed(dm.graph_out) \subseteq dm.to_remove
    /\ dm.pc = "done" => Unnamed(dm.graph_out) = {}

\* some connected group of tagged particles holds two particles whose sets
\* of modification names differ
InconsistentGroup(run) ==
    LET names(idx) == Range(run.molecule.attr[idx]["modifications"])
    IN \E group \in connected_components(Tagged(run), run.molecule.edges) :
           \E i, j \in group : names(i) # names(j)

\* C19: modification_matches fails its assertion exactly when a connected
\* group of tagged particles holds two particles whose sets of modification
\* names differ, whatever the order in which each particle lists its names.
C19_AssertsOnDifferingNameSets ==
    dm.pc # "start" => (dm.raised = "AssertionError" <=> InconsistentGroup(dm))

\* the output particles mapped from a source particle, none-to-one
\* particles excluded
OutOf(run, mol_idx) ==
    DOMAIN Get(run.mol_to_out, mol_idx, EmptyDict) \ run.none_to_one_mappings

\* the output has an edge for every source edge between the particles of
\* two distinct applied matches
EdgesSynthesized(run) ==
    \A a, b \in DOMAIN run.all_matches :
        a # b =>
            \A i \in DOMAIN run.all_matches[a][1], j \in DOMAIN run.all_matches[b][1] :
                {i, j} \in run.molecule.edges =>
                    \A o \in OutOf(run, i), p \in OutOf(run, j) :
                        o # p => {o, p} \in run.graph_out.edges

TiedTops(run) ==
    /\ run.pc = "merge"
    /\ Len(run.block_matches) > 0
    /\ Len(run.mod_matches) > 0
    /\ MinKey(run.mod_matches[Len(run.mod_matches)])
           = MinKey(run.block_matches[Len(run.block_matches)])

\* C21 as claimed: on a tie the modification match is the one taken.
C21_ModificationFirstOnTie ==
    [][TiedTops(dm) =>
          /\ Len(dm'.mod_matches) = Len(dm.mod_matches) - 1
          /\ dm'.block_matches = dm.block_matches]_vars

\* C21, amended: on a tie the block match is the one taken from its stack,
\* and the modification match stays on its stack.
C21_BlockFirstOnTie ==
    [][TiedTops(dm) =>
          /\ Len(dm'.block_matches) = Len(dm.block_matches) - 1
          /\ dm'.mod_matches = dm.mod_matches]_vars

\* the first iteration met a tie: one block match is off its stack, and its
\* lowest particle id is that of the modification match still on top
C21_Witness ==
    /\ dm.pc = "raised"
    /\ Len(dm.all_matches) = 0
    /\ Len(dm.mod_matches) > 0
    /\ Len(dm.mod_matches) = Len(modification_matches(dm.molecule, dm.mappings).matches)
    /\ Len(dm.block_matches) + 1 = Len(BlockMatches(dm.mappings))
    /\ \A i \in DOMAIN BlockMatches(dm.mappings) :
           MinKey(BlockMatches(dm.mappings)[i])
               >= MinKey(dm.mod_matches[Len(dm.mod_matches)])

(***************************************************************************)
(* cover as modification_matches calls it (lines 131-132): the names of a  *)
(* group against the keys of known_mod_mappings sorted by decreasing       *)
(* length.  The keys are distinct tuples of names, in the order of the     *)
(* dict.                                                                   *)
(***************************************************************************)
GroupNames == <<"a", "b", "c", "d">>

\* the names of the modification mappings at hand
KnownPool == {<<"a", "c">>, <<"a", "b">>, <<"c", "d">>, <<"b">>, <<"d">>}

\* the keys of a dict: no key twice
KeyLists(keys) ==
    {ks \in SeqsUpTo(keys, Cardinality(keys)) :
        \A i, j \in DOMAIN ks : i # j => ks[i] # ks[j]}

\* the lists of names of a group
GroupLists ==
    {SelectSeqIdx(GroupNames, keep) : keep \in SUBSET DOMAIN GroupNames}

\* cover([ptm.name for ptm in group], sorted(known_mod_mappings, key=len,
\* reverse=True))
cover_sorted(group, known) ==
    cover(group, sorted_reverse(known, [i \in 1..Len(known) |-> Len(known[i])]))

CoverSortedInit ==
    /\ cov \in [op : {"none"}, to_cover : GroupLists, options : KeyLists(KnownPool)]
    /\ mol = Molecule("None")
    /\ last = Idle
    /\ block = NoBlock
    /\ match = NoMatch
    /\ dm = NoRun
    /\ system = NoSystem
    /\ rs = NoCall

CoverSorted ==
    /\ cov.op = "none"
    /\ cov' = [op |-> "cover_sorted",
               to_cover |-> cov.to_cover,
               options |-> cov.options,
               res |-> cover_sorted(cov.to_cover, cov.options)]
    /\ UNCHANGED <<mol, last, block, match, dm, system, rs>>

CoverSortedNext ==
    \/ CoverSorted

CoverSortedSpec == CoverSortedInit /\ [][CoverSortedNext]_vars

\* the options options[i], i in chosen, name exactly the names of to_cover
CoversExactly(chosen, to_cover, options) ==
    LET RECURSIVE names(_)
        names(i) == IF i > Len(options) THEN <<>>
                    ELSE (IF i \in chosen THEN options[i] ELSE <<>>) \o names(i + 1)
        all == names(1)
    IN \A n \in Range(all) \cup Range(to_cover) : Count(all, n) = Count(to_cover, n)

\* C22: the covering that cover returns for options sorted by decreasing
\* length is minimal: no choice of fewer of the options covers the names
\* exactly.
C22_CoverIsMinimal ==
    (cov.op = "cover_sorted" /\ cov.res.raised = "none") =>
        \A found \in cov.res.ret :
            \A chosen \in SUBSET DOMAIN cov.options :
                CoversExactly(chosen, cov.to_cover, cov.options)
                    => Cardinality(chosen) >= Len(found)

\* every entry of one table is an entry of the other, with the same weight
Inverse(table, other) ==
    \A k1 \in DOMAIN table :
        \A k2 \in DOMAIN table[k1] :
            /\ k2 \in DOMAIN other
            /\ k1 \in DOMAIN other[k2]
            /\ other[k2][k1] = table[k1][k2]

\* C23: mol_to_out and out_to_mol are mutually inverse, with equal weights,
\* at every point of do_mapping.
C23_TablesMutuallyInverse ==
    /\ Inverse(dm.mol_to_out, dm.out_to_mol)
    /\ Inverse(dm.out_to_mol, dm.mol_to_out)

\* two matches were applied, the second of which set anew a weight that the
\* first had set
C23_Witness ==
    /\ dm.pc = "merge"
    /\ Len(dm.all_matches) = 2
    /\ \E m \in DOMAIN dm.mol_to_out : \E o \in DOMAIN dm.mol_to_out[m] :
           /\ dm.mol_to_out[m][o] = 2
           /\ m \in DOMAIN dm.all_matches[1][1]

\* the block match that the next iteration takes
NextBlock(run) == run.block_matches[Len(run.block_matches)]

\* the output particles that the merge of the block of a match makes of the
\* template particles that no source particle of the match maps to
SpawnedOut(run, match_) ==
    LET corr == correspondence(run.graph_out, match_[2])
    IN {corr[block_idx] : block_idx \in NodeSet(match_[2]) \ Mapped(match_[1])}

\* C24: an iteration that applies a block match, unless the ValueError of
\* merge_molecule stops it, adds to the none-to-one set exactly the output
\* particles made of template particles that no source particle maps to,
\* and links each of them in both tables to every source particle of the
\* match with weight 0.
C24_SpawnedAreNoneToOne ==
    [][(ApplyBlockMatch /\ dm'.raised # "ValueError") =>
          LET spawned == SpawnedOut(dm, NextBlock(dm))
          IN /\ dm'.none_to_one_mappings = dm.none_to_one_mappings \cup spawned
             /\ \A o \in spawned, m \in DOMAIN NextBlock(dm)[1] :
                    /\ m \in DOMAIN dm'.mol_to_out
                    /\ o \in DOMAIN dm'.mol_to_out[m]
                    /\ dm'.mol_to_out[m][o] = 0
                    /\ o \in DOMAIN dm'.out_to_mol
                    /\ m \in DOMAIN dm'.out_to_mol[o]
                    /\ dm'.out_to_mol[o][m] = 0]_vars

\* C25: no id is both in overlapping_mappings and in none_to_one_mappings.
\* Both sets are filled at lines 361-362 only, after apply_block_mapping has
\* returned, so that they stay empty whenever the block has a particle.
C25_OverlapAndNoneToOneDisjoint ==
    dm.overlapping_mappings \cap dm.none_to_one_mappings = {}

\* neither set ever gets a member
SetsStayEmpty == dm.overlapping_mappings = {} /\ dm.none_to_one_mappings = {}

\* the modification match that the next iteration takes
NextMod(run) == run.mod_matches[Len(run.mod_matches)]

\* the output molecule holds the interaction `it` of the modification, of
\* type t, on output particles that have the atomnames of its atoms
HoldsTranslated(graph, modification, t, it) ==
    \E j \in DOMAIN graph.interactions[t] :
        LET out == graph.interactions[t][j]
        IN /\ out.parameters = it.parameters
           /\ Len(out.atoms) = Len(it.atoms)
           /\ \A k \in DOMAIN it.atoms :
                  /\ out.atoms[k] \in NodeSet(graph)
                  /\ graph.attr[out.atoms[k]]["atomname"]
                         = modification.attr[it.atoms[k]]["atomname"]

\* C26: an iteration that applies a modification match, unless the
\* ValueError of an atom name that no output particle has stops it, raises
\* nothing and leaves every interaction of the modification in the output
\* molecule, on the output particles of its atoms.
C26_ModificationInteractionsApplied ==
    [][(ApplyModMatch /\ dm'.raised # "ValueError") =>
          LET modification == NextMod(dm)[2]
          IN /\ dm'.raised = "none"
             /\ \A t \in DOMAIN modification.interactions :
                    \A i \in DOMAIN modification.interactions[t] :
                        HoldsTranslated(dm'.graph_out, modification, t,
                                        modification.interactions[t][i])]_vars

\* an input particle's attributes with its 'replace' override applied
Replaced(node) ==
    IF "replace" \in DOMAIN node THEN Update(node, node["replace"]) ELSE node

\* the input particles that contribute to out_idx and have the attribute,
\* in the order in which they came in
Contributors(run, out_idx, attr) ==
    SelectSeq(run.out_order[out_idx],
              LAMBDA mol_idx : /\ mol_idx \in NodeSet(run.molecule)
                               /\ attr \in DOMAIN Replaced(run.molecule.attr[mol_idx]))

\* out_idx has a reference particle among the molecule's
Referenced(run, out_idx) ==
    /\ out_idx \in DOMAIN run.all_references
    /\ run.all_references[out_idx] \in NodeSet(run.molecule)

\* the value the output particle is to get for the attribute: {} when no
\* particle gives one
KeptValue(run, out_idx, attr) ==
    IF Referenced(run, out_idx)
    THEN LET ref == Replaced(run.molecule.attr[run.all_references[out_idx]])
         IN IF attr \in DOMAIN ref THEN {ref[attr]} ELSE {}
    ELSE LET from == Contributors(run, out_idx, attr)
         IN IF Len(from) = 0 THEN {}
            ELSE {Replaced(run.molecule.attr[from[1]])[attr]}

\* C27: the reconciliation of 371-404 raises nothing and gives every output
\* particle of out_to_mol, for every attribute of attribute_keep, the value
\* of its reference particle (with the reference's 'replace' applied) when
\* the matches gave one, and else the value of its first contributor that
\* has the attribute.
C27_KeptAttributesReconciled ==
    [][ReconcileAttributes =>
          /\ dm'.pc # "raised"
          /\ \A out_idx \in DOMAIN dm.out_to_mol \cap NodeSet(dm.graph_out) :
                 \A attr \in Range(dm.attribute_keep) :
                     \A val \in KeptValue(dm, out_idx, attr) :
                         /\ attr \in DOMAIN dm'.graph_out.attr[out_idx]
                         /\ dm'.graph_out.attr[out_idx][attr] = val]_vars

\* the reconciliation stopped on a particle that has a 'replace'
ReplaceRaises ==
    /\ dm.pc = "raised" /\ dm.raised = "AttributeError"
    /\ \E i \in NodeSet(dm.molecule) : "replace" \in DOMAIN dm.molecule.attr[i]

\* the residue ids of the particles of a molecule that have one
Resids(graph) ==
    {graph.attr[n]["resid"] : n \in {k \in NodeSet(graph) : "resid" \in DOMAIN graph.attr[k]}}

\* C28: the merge of a block whose residue ids are non-negative into an
\* output molecule that already has particles, unless the ValueError of a
\* force field or nrexcl mismatch refuses it, does not raise KeyError and
\* gives every merged-in particle a residue id greater than that of every
\* particle the output molecule already had.
C28_MergeOffsetsResidues ==
    [][(/\ ApplyBlockMatch
        /\ Len(dm.graph_out.nodes) > 0
        /\ \A n \in NodeSet(NextBlock(dm)[2]) :
               /\ "resid" \in DOMAIN NextBlock(dm)[2].attr[n]
               /\ NextBlock(dm)[2].attr[n]["resid"] >= 0
        /\ dm'.raised # "ValueError") =>
          /\ dm'.raised # "KeyError"
          /\ \A new \in NodeSet(dm'.graph_out) \ NodeSet(dm.graph_out) :
                 /\ "resid" \in DOMAIN dm'.graph_out.attr[new]
                 /\ \A r \in Resids(dm.graph_out) :
                        dm'.graph_out.attr[new]["resid"] > r]_vars

\* the merge stopped at line 267: the last particle of the output molecule
\* came from a modification and has no residue id
LastParticleLacksResid ==
    /\ dm.pc = "raised" /\ dm.raised = "KeyError"
    /\ Len(dm.graph_out.nodes) > 0
    /\ "resid" \notin DOMAIN dm.graph_out.attr[SetMax(NodeSet(dm.graph_out))]
    /\ Len(dm.all_matches) > 0

\* C29: cover(to_cover, options) comes to an end for every list to_cover
\* and every list of options, the empty option included: no call of cover
\* makes a recursive call with the names and the options it was given.
C29_CoverTerminates ==
    cov.op = "cover" => cov.res.raised # "RecursionError"

\* cover was called with names to cover and the empty option alone
EmptyOptionRecurses ==
    /\ cov.op = "cover"
    /\ cov.to_cover # <<>>
    /\ cov.options = <<<<>>>>
    /\ cov.res.raised = "RecursionError"

(***************************************************************************)
(* DoMapping.run_system.  `system` is the System object, with its list of  *)
(* molecules and its force field; `rs` is the frame of the call            *)
(* run_system(system): the processor `self`, the local list `mols` and     *)
(* the position idx of the loop of line 505 in system.molecules.  The call *)
(* of run_molecule is a run of do_mapping in `dm`, which takes the steps   *)
(* of DoMappingNext.                                                       *)
(***************************************************************************)
MaxMolecules == 2

\* DoMapping(mappings, to_ff, delete_unknown, attribute_keep)
DoMapping(mappings, to_ff, delete_unknown, attribute_keep) ==
    [mappings |-> mappings, to_ff |-> to_ff,
     delete_unknown |-> delete_unknown, attribute_keep |-> attribute_keep]

\* run_molecule: the call of do_mapping with the processor's arguments
run_molecule(self, molecule) ==
    NewRun(molecule, self.mappings, self.to_ff, self.attribute_keep)

\* bool(molecule): a graph is true when it has a node
Truthy_whatever_it_holds(molecule) == TRUE

Truthy(molecule) == Len(molecule.nodes) > 0

\* lines 508-516, with the run of do_mapping that run_molecule made: an
\* exception of run_molecule leaves run_system, KeyError through either
\* branch of 509-512 and any other uncaught
LoopOnce(frame, run) ==
    LET new_molecule == run.graph_out
    IN IF run.pc = "raised"
       THEN IF run.raised = "KeyError"
            THEN IF ~frame.self.delete_unknown
                 THEN [frame EXCEPT !.pc = "raised", !.raised = "KeyError"]
                 ELSE [frame EXCEPT !.pc = "raised", !.raised = "KeyError"]
            ELSE [frame EXCEPT !.pc = "raised", !.raised = run.raised]
       ELSE [frame EXCEPT
                !.pc = "loop",
                !.idx = @ + 1,
                !.mols = IF Truthy(new_molecule) THEN Append(@, new_molecule) ELSE @]

\* the molecules of the systems: an unmodified chain, two modified ones and
\* one whose particle 3 has a 'replace'
SystemMolecules ==
    {Source(EmptyDict, "A", "plain"),
     Source([i \in {3, 4} |-> <<"a">>], "A", "plain"),
     Source([i \in {3, 4} |-> <<"a">>], "B", "plain"),
     Source([i \in {3, 4} |-> <<"a">>], "A", "replace")}

\* the processors: the modification 'a' on one new particle, the same with
\* an interaction, and a block
Processors ==
    LET P == ModTemplate(<<"P">>, {0}, <<>>)
        PQ == ModTemplate(<<"P", "Q">>, {0, 1},
                          <<Interaction(<<0, 1>>, "p1", EmptyDict)>>)
        collections ==
            {<<ModMapping(<<"a">>, << <<ManyToOne({3, 4}), P, EmptyDict>> >>, FALSE)>>,
             <<ModMapping(<<"a">>, << <<OneToOne(<<3, 4>>), PQ, EmptyDict>> >>, FALSE)>>,
             <<Mapping("block", <<"LIN2">>,
                       << <<OneToOne(<<3, 4>>), LinearBlock("2"), EmptyDict>> >>, <<>>)>>}
    IN {DoMapping(mappings, "ff1", delete_unknown, <<>>) :
           mappings \in collections, delete_unknown \in BOOLEAN}

RunSystemInit ==
    /\ mol = Molecule("ff1")
    /\ last = Idle
    /\ block = NoBlock
    /\ match = NoMatch
    /\ cov = NoCover
    /\ dm = NoRun
    /\ system \in [molecules : SeqsUpTo(SystemMolecules, MaxMolecules),
                   force_field : {"ff0"}]
    /\ rs \in {[pc |-> "loop", raised |-> "none", self |-> self,
                idx |-> 1, mols |-> <<>>] : self \in Processors}

\* lines 505-507: the next molecule of the system is handed to run_molecule
CallRunMolecule ==
    /\ rs.pc = "loop"
    /\ rs.idx <= Len(system.molecules)
    /\ dm' = run_molecule(rs.self, system.molecules[rs.idx])
    /\ rs' = [rs EXCEPT !.pc = "mapping"]
    /\ UNCHANGED <<mol, last, block, match, cov, system>>

\* lines 508-516, once do_mapping has returned or raised
TakeMolecule ==
    /\ rs.pc = "mapping"
    /\ dm.pc \in {"done", "raised"}
    /\ rs' = LoopOnce(rs, dm)
    /\ dm' = NoRun
    /\ UNCHANGED <<mol, last, block, match, cov, system>>

\* lines 517-518, once the loop has ended
AssignSystem ==
    /\ rs.pc = "loop"
    /\ rs.idx > Len(system.molecules)
    /\ system' = [system EXCEPT !.molecules = rs.mols,
                                !.force_field = rs.self.to_ff]
    /\ rs' = [rs EXCEPT !.pc = "returned"]
    /\ UNCHANGED <<mol, last, block, match, cov, dm>>

RunSystemNext ==
    \/ CallRunMolecule
    \/ DoMappingNext
    \/ TakeMolecule
    \/ AssignSystem

RunSystemSpec == RunSystemInit /\ [][RunSystemNext]_vars

\* do_mapping from its first line to its return or its raise
RECURSIVE RunToEnd(_)
RunToEnd(run) ==
    IF run.pc \in {"done", "raised"} THEN run
    ELSE IF run.pc = "start" THEN RunToEnd(StartMapping(run))
    ELSE IF run.pc = "merge"
    THEN IF Len(run.block_matches) + Len(run.mod_matches) = 0
         THEN RunToEnd(SetAttributes(run))
         ELSE IF TakesModification(run)
         THEN RunToEnd(ModificationIteration(run))
         ELSE RunToEnd(BlockIteration(run))
    ELSE IF run.pc = "edges" THEN RunToEnd(SynthesizeEdges(run))
    ELSE RunToEnd(SanityChecks(run))

\* what run_molecule makes of the molecules of a list, one after the other
MappedRuns(self, molecules) ==
    [i \in DOMAIN molecules |-> RunToEnd(run_molecule(self, molecules[i]))]

\* every molecule of the list maps
EveryMoleculeMaps(self, molecules) ==
    \A i \in DOMAIN molecules : MappedRuns(self, molecules)[i].pc = "done"

\* the mapped molecules that have a particle, in the order of the list
NonEmptyMapped(self, molecules) ==
    LET runs == MappedRuns(self, molecules)
        kept == {i \in DOMAIN molecules : runs[i].graph_out.nodes # <<>>}
        at == SelectSeqIdx([i \in DOMAIN molecules |-> i], kept)
    IN [k \in DOMAIN at |-> runs[at[k]].graph_out]

\* C30: run_system changes the system in its last step only, which it
\* takes when every molecule has mapped and in no other case; the step
\* makes system.molecules the list of the mapped molecules that have a
\* particle, in the original order, and system.force_field to_ff.  A call
\* that a molecule's mapping raises out of leaves the system as it was.
C30_RunSystemAllOrNothing ==
    [][/\ system' # system =>
              /\ rs'.pc = "returned"
              /\ EveryMoleculeMaps(rs.self, system.molecules)
       /\ rs'.pc = "raised" =>
              /\ system' = system
              /\ ~EveryMoleculeMaps(rs.self, system.molecules)
       /\ rs'.pc = "returned" =>
              /\ EveryMoleculeMaps(rs.self, system.molecules)
              /\ system'.molecules = NonEmptyMapped(rs.self, system.molecules)
              /\ system'.force_field = rs.self.to_ff]_vars

\* the second molecule raised after the first had been mapped and kept
C30_Witness ==
    /\ rs.pc = "raised"
    /\ Len(rs.mols) = 1
    /\ system.force_field = "ff0"

\* a system of two molecules of which the one that maps to no particle was
\* left out
EmptyMoleculeLeftOut ==
    /\ rs.pc = "returned"
    /\ rs.idx = 3
    /\ Len(system.molecules) = 1
    /\ system.force_field = "ff1"

====
